---- MODULE Spec2Model ----
(***************************************************************************)
(* A model of the orchestration engine of industrial-4.0-demo:            *)
(*   - the write-ahead log (persistence.WAL: Append, Complete, Recover),   *)
(*   - the priority queue (engine.PriorityQueue under container/heap),     *)
(*   - the scheduler (engine.Scheduler: SubmitTask, RecoverTasks, Start),  *)
(*   - the workflow engine (engine.WorkflowEngine: Process, executeStep,   *)
(*     rollback) with its resource pools.                                  *)
(* Goroutines are modelled as processes; every critical section of a      *)
(* mutex is one action.                                                    *)
(***************************************************************************)
EXTENDS Integers, Sequences, FiniteSets, TLC

\* ------------------------------------------------------------------ bounds

\* SubmitTask calls in one run of the scheduler specifications.
MaxSubmits == 3
\* SubmitTask calls in the specification of the engine's workflows.
MaxEngineSubmits == 2
\* Orders submitted and not yet forgotten in the specification of an endless
\* stream of orders.
MaxSlots == 3
\* SubmitTask calls in the specification with a failing disk.
MaxFaultSubmits == 2
\* SubmitTask calls in the specification with crash and restart.
MaxCrashSubmits == 2
\* Process crashes in the specification with crash and restart.
MaxCrashes == 1
\* Pushes in the specification of the priority queue alone.
MaxPushes == 5
\* Lines in the specification of the WAL file alone.
MaxLog == 4
\* Order priorities range over 0..MaxPriority.
MaxPriority == 2
\* Scheduler.maxWorkers (config max_workers) ranges over 1..MaxWorkers.
MaxWorkers == 2

\* ------------------------------------------------------------------ configuration

ProductIDs == {"A", "B"}

StationIDs == {"DRILL", "AOI", "ETEST", "LAMINATE"}

\* The stations registered with RegisterStation: LAMINATE is not.
RegisteredStations == {"DRILL", "AOI", "ETEST"}

\* The rules of the configured steps: one that is true of the orders of a
\* priority above 0, one that does not compile, one that fails when it is
\* run, one whose result is not a boolean.
RuleUrgent == "product.Priority > 0"
RuleNoCompile == "product.Priority >"
RuleRunError == "product.Attrs.panel.size > 1"
RuleNotBool == "product.ID"

\* WorkflowEngine.workflows: order type (lower case, as the configuration
\* loader folds the keys) -> steps.
Workflows ==
  [ pcb_double_layer |->
      << [StationIDs |-> <<"DRILL", "AOI">>, Rule |-> ""],
         [StationIDs |-> <<"ETEST">>, Rule |-> ""] >>,
    pcb_prototype |->
      << [StationIDs |-> <<"ETEST">>, Rule |-> ""] >>,
    pcb_rigid_flex |->
      << [StationIDs |-> <<"DRILL", "LAMINATE">>, Rule |-> ""],
         [StationIDs |-> <<"ETEST">>, Rule |-> ""] >>,
    pcb_multi_layer |->
      << [StationIDs |-> <<"DRILL">>, Rule |-> ""],
         [StationIDs |-> <<"AOI">>, Rule |-> RuleUrgent],
         [StationIDs |-> <<"ETEST">>, Rule |-> ""] >>,
    pcb_hdi |->
      << [StationIDs |-> <<"DRILL">>, Rule |-> RuleNoCompile],
         [StationIDs |-> <<"DRILL">>, Rule |-> RuleRunError],
         [StationIDs |-> <<"DRILL">>, Rule |-> RuleNotBool],
         [StationIDs |-> <<"ETEST">>, Rule |-> ""] >> ]

\* The capacities given to NewWorkflowEngine (config resource_pools).
PoolSizes == [s \in {"ETEST"} |-> 1]

Priorities == 0..MaxPriority

\* What a caller may submit: types.Product{ID, Type, Priority}.
Product(id, type, prio) == [ID |-> id, Type |-> type, Priority |-> prio]

AllProducts ==
  {Product(id, t, pr) : id \in ProductIDs, t \in {"PCB_DOUBLE_LAYER", "PCB_PROTOTYPE"},
                        pr \in Priorities}

\* ------------------------------------------------------------------ state

VARIABLES
  products,    \* the Product objects of this run, by creation order (the pointer)
  submitting,  \* SubmitTask calls between WAL.Append and submit
  io,          \* per product, how its WAL.Append and WAL.Complete calls ended
  pq,          \* Scheduler.pq: the heap array, of product pointers
  dpc,         \* where Scheduler.Start's loop is
  item,        \* the item popped by the loop and not yet handed to a worker
  wpc,         \* where each worker goroutine is
  maxWorkers,  \* Scheduler.maxWorkers
  workerPool,  \* the number of elements in the channel workerPool
  gauge,       \* metrics.TasksInQueue
  tracker,     \* StateTracker.state.Products: id -> status
  ctxDone,     \* the scheduler context is cancelled
  intake,      \* the callers of SubmitTask have not stopped for good
  startedWith, \* the length of the queue when go scheduler.Start ran; -1 before
  fsm,         \* an fsm.FSM and what its Fire calls did
  mu,          \* Scheduler.mu: who holds it, "free" when nobody
  bpc,         \* where the goroutine of Start that waits for ctx.Done() is
  wfc,         \* where waitForShutdown is: cancel(), WaitForCompletion()
  handled,     \* the published events whose state-tracker handler has run
  bus,         \* an event.Bus: its handlers, the Publish calls, the goroutines
  wal,         \* the lines of the WAL file
  recovered,   \* what the last calls of Recover returned
  crashes,     \* the number of crashes so far
  preCrash,    \* the ids submitted in a run that crashed before their COMPLETE
  ord,         \* WorkflowEngine.Process: the state of each invocation
  pools        \* WorkflowEngine.resourcePools: elements in each channel

schedVars == <<products, submitting, io, pq, dpc, item, wpc, maxWorkers, workerPool,
               gauge, tracker, ctxDone, intake, startedWith>>
fsmVars == <<fsm>>
shutVars == <<mu, bpc, wfc>>
busVars == <<handled, bus>>
walVars == <<wal, recovered, crashes, preCrash>>
engVars == <<ord, pools>>
vars == <<schedVars, walVars, engVars, fsmVars, shutVars, busVars>>

\* ------------------------------------------------------------------ WAL

\* LogEntry{Type: "TASK", Task: task}
TaskEntry(task) == [type |-> "TASK", task |-> task, task_id |-> ""]

\* LogEntry{Type: "COMPLETE", TaskID: id}
CompleteEntry(id) == [type |-> "COMPLETE", task |-> <<>>, task_id |-> id]

\* A line json.Unmarshal rejects.
CorruptLine == [type |-> "CORRUPT", task |-> <<>>, task_id |-> ""]

\* pendingTasks[id] = task
MapPut(m, k, v) == [x \in DOMAIN m \cup {k} |-> IF x = k THEN v ELSE m[x]]

\* The scanner loop of Recover: pendingTasks and completedTasks after the lines of log.
RECURSIVE ScanLog(_, _, _)
ScanLog(log, pendingTasks, completedTasks) ==
  IF log = <<>> THEN [pending |-> pendingTasks, completed |-> completedTasks]
  ELSE LET entry == Head(log) IN
    CASE entry.type = "TASK" ->
           ScanLog(Tail(log), MapPut(pendingTasks, entry.task.ID, entry.task), completedTasks)
      [] entry.type = "COMPLETE" ->
           ScanLog(Tail(log), pendingTasks, completedTasks \cup {entry.task_id})
      [] OTHER -> ScanLog(Tail(log), pendingTasks, completedTasks)

\* The scanner loop of the other Recover in the source: completedTasks[entry.Type] = true.
RECURSIVE ScanLogVariant(_, _, _)
ScanLogVariant(log, pendingTasks, completedTasks) ==
  IF log = <<>> THEN [pending |-> pendingTasks, completed |-> completedTasks]
  ELSE LET entry == Head(log) IN
    CASE entry.type = "TASK" ->
           ScanLogVariant(Tail(log), MapPut(pendingTasks, entry.task.ID, entry.task),
                          completedTasks)
      [] entry.type = "COMPLETE" ->
           ScanLogVariant(Tail(log), pendingTasks, completedTasks \cup {entry.type})
      [] OTHER -> ScanLogVariant(Tail(log), pendingTasks, completedTasks)

\* recoveredTasks: the pending tasks that are not completed (as a set: the
\* order of the returned slice is the map's iteration order).
Uncompleted(scan) ==
  {scan.pending[id] : id \in {x \in DOMAIN scan.pending : x \notin scan.completed}}

EmptyMap == [x \in {} |-> <<>>]

Recover(log) == Uncompleted(ScanLog(log, EmptyMap, {}))

RecoverVariant(log) == Uncompleted(ScanLogVariant(log, EmptyMap, {}))

\* A line json.Unmarshal accepts whose type is neither TASK nor COMPLETE.
UnknownTypeLine == [type |-> "NOTE", task |-> <<>>, task_id |-> ""]

\* A line {"type":"TASK"} with no "task" member: entry.Task is nil.
TaskNoSnapshot == [type |-> "TASK", task |-> <<>>, task_id |-> ""]

\* The scanner loop reaches a TASK line whose entry.Task is nil and reads
\* entry.Task.ID: a nil pointer dereference, the goroutine panics.
Panics(log) == \E i \in 1..Len(log) : log[i] = TaskNoSnapshot

\* What a call of Recover on the file `log` ends with.
RecoverCall(log) ==
  IF Panics(log) THEN [by |-> "panic", tasks |-> {}]
  ELSE [by |-> "Recover", tasks |-> Recover(log)]

\* No Recover call since the file last changed.
NotRecovered == [by |-> "none", tasks |-> {}]

\* What WAL.Append and WAL.Complete can do: write and sync the line; fail in
\* Write (no line, an error); fail in Sync (the line is written, an error).
WriteOutcomes == {"ok", "write_err", "sync_err"}

\* The last line of a file whose last write was cut by a crash: the first
\* bytes of a record, with no newline after them.
PartialLine == [type |-> "PARTIAL", task |-> <<>>, task_id |-> ""]

\* The file ends with a line that has no newline.
Torn(log) == log # <<>> /\ log[Len(log)] = PartialLine

\* The file after a write of `entry` with outcome `out`. The file is opened
\* with O_APPEND and the bytes go after the last byte: after a line without
\* its newline they make one line with it, which json.Unmarshal rejects.
WalWrite(log, entry, out) ==
  IF out = "write_err" THEN log
  ELSE IF Torn(log) THEN [log EXCEPT ![Len(log)] = CorruptLine]
  ELSE Append(log, entry)

\* ------------------------------------------------------------------ priority queue

\* pq[i].Product.Priority, ps being the Product objects
PriorityOf(ps, u) == ps[u].Priority

\* Less with the comparison turned round: a min-heap.
LessMin(ps, h, i, j) == PriorityOf(ps, h[i + 1]) < PriorityOf(ps, h[j + 1])

\* PriorityQueue.Less
Less(ps, h, i, j) == PriorityOf(ps, h[i + 1]) > PriorityOf(ps, h[j + 1])

\* PriorityQueue.Swap
Swap(h, i, j) == [h EXCEPT ![i + 1] = h[j + 1], ![j + 1] = h[i + 1]]

\* container/heap up(h, j)
RECURSIVE HeapUp(_, _, _)
HeapUp(ps, h, j) ==
  LET i == (j - 1) \div 2 IN
    IF j = 0 \/ i = j \/ ~Less(ps, h, j, i) THEN h
    ELSE HeapUp(ps, Swap(h, i, j), i)

\* container/heap down(h, i, n)
RECURSIVE HeapDown(_, _, _, _)
HeapDown(ps, h, i, n) ==
  LET j1 == 2 * i + 1 IN
    IF j1 >= n THEN h
    ELSE LET j2 == j1 + 1
             j == IF j2 < n /\ Less(ps, h, j2, j1) THEN j2 ELSE j1
         IN IF ~Less(ps, h, j, i) THEN h
            ELSE HeapDown(ps, Swap(h, i, j), j, n)

\* heap.Push without the call of up: the item stays last.
HeapPushNoUp(ps, h, u) == Append(h, u)

\* heap.Push(&s.pq, &Item{Product: p}): PriorityQueue.Push appends, then up.
HeapPush(ps, h, u) == HeapUp(ps, Append(h, u), Len(h))

\* heap.Pop without the call of down: the last item becomes the root.
HeapPoppedNoDown(ps, h) == Swap(h, 0, Len(h) - 1)

\* heap.Pop(&s.pq): swap the root with the last, down; PriorityQueue.Pop takes the last.
HeapPopped(ps, h) ==
  LET n == Len(h) - 1 IN HeapDown(ps, Swap(h, 0, n), 0, n)

HeapPopItem(ps, h) == HeapPopped(ps, h)[Len(h)]

HeapPopRest(ps, h) == SubSeq(HeapPopped(ps, h), 1, Len(h) - 1)

\* ------------------------------------------------------------------ workflow engine: helpers

\* strings.ToLower on the order types in use.
ToLower(t) ==
  CASE t = "PCB_DOUBLE_LAYER" -> "pcb_double_layer"
    [] t = "PCB_PROTOTYPE" -> "pcb_prototype"
    [] t = "Pcb_Prototype" -> "pcb_prototype"
    [] t = "PCB_RIGID_FLEX" -> "pcb_rigid_flex"
    [] t = "PCB_MULTI_LAYER" -> "pcb_multi_layer"
    [] t = "Pcb_Hdi" -> "pcb_hdi"
    [] t = "PCB_CERAMIC" -> "pcb_ceramic"
    [] OTHER -> t

\* The workflow lookup by the type as it is written, with no default.
SequenceOfExact(p) ==
  IF p.Type \in DOMAIN Workflows THEN Workflows[p.Type] ELSE <<>>

\* sequence, ok := e.workflows[strings.ToLower(p.Type)]; the default when !ok
SequenceOf(p) ==
  IF ToLower(p.Type) \in DOMAIN Workflows THEN Workflows[ToLower(p.Type)]
  ELSE IF "pcb_double_layer" \in DOMAIN Workflows THEN Workflows["pcb_double_layer"]
  ELSE <<>>

\* expr.Compile and expr.Run on the rules in use: how the evaluation ends
\* and, when it ends with a boolean, the boolean.
RunRule(rule, p) ==
  CASE rule = RuleUrgent -> [end |-> "bool", result |-> p.Priority > 0]
    [] rule = RuleNoCompile -> [end |-> "compile_err", result |-> FALSE]
    [] rule = RuleRunError -> [end |-> "run_err", result |-> FALSE]
    [] rule = RuleNotBool -> [end |-> "not_bool", result |-> FALSE]
    [] OTHER -> [end |-> "compile_err", result |-> FALSE]

\* evaluateRule returning shouldExecute instead of its negation.
EvaluateRuleNoNegation(rule, p) ==
  IF rule = "" THEN [skip |-> FALSE, err |-> FALSE]
  ELSE LET r == RunRule(rule, p) IN
    IF r.end # "bool" THEN [skip |-> TRUE, err |-> TRUE]
    ELSE [skip |-> r.result, err |-> FALSE]

\* evaluateRule: (shouldSkip, err)
EvaluateRule(rule, p) ==
  IF rule = "" THEN [skip |-> FALSE, err |-> FALSE]
  ELSE LET r == RunRule(rule, p) IN
    IF r.end # "bool" THEN [skip |-> TRUE, err |-> TRUE]
    ELSE [skip |-> ~r.result, err |-> FALSE]

\* What Execute appends to p.History: LocalStation string(s.ID), RemoteStation
\* (the AOI station) string(s.ID)+"(Remote)".
HistoryEntry(s) == IF s = "AOI" THEN "AOI(Remote)" ELSE s

\* event.Event{Type, StationID} as published for one product
Ev(type, s) == <<type, s>>

\* The state of a Process invocation before it starts.
NewOrd ==
  [pc |-> "idle",        \* idle, loop, exec, rollback, done
   step |-> 0,           \* the index i of the loop over sequence (from 1)
   gor |-> <<>>,         \* the goroutines of executeStep, by index in the step
   executed |-> <<>>,    \* executedStations
   rb |-> 0,             \* the index i of rollback's loop (from 1)
   History |-> <<>>,     \* p.History
   base |-> <<>>,        \* by goroutine in Execute, p.History when its Execute began
   comp |-> <<>>,        \* the Compensate calls made, in order
   events |-> <<>>]      \* the events published, in order

hasPool(s) == s \in DOMAIN PoolSizes

EmptyPools == [s \in DOMAIN PoolSizes |-> 0]

\* ------------------------------------------------------------------ scheduler

\* submit without its call of AddProduct: the tracker gets no entry.
AddProductSkipped(t, p) == t

\* StateTracker.AddProduct: status QUEUED
AddProduct(t, p) == MapPut(t, p.ID, "QUEUED")

\* s.cond.Signal(): the loop of Start, when it waits, is woken.
Signal(d) == IF d = "wait" THEN "loop" ELSE d

\* SubmitTask, first half: a new Product object, s.wal.Append(p) with outcome
\* out; the error is logged and nothing else.
SubmitAppend(p, out) ==
  /\ dpc # "down"
  /\ products' = Append(products, p)
  /\ wal' = WalWrite(wal, TaskEntry(p), out)
  /\ io' = Append(io, [append |-> out, complete |-> "none"])
  /\ submitting' = submitting \cup {Len(products) + 1}
  /\ wpc' = Append(wpc, "none")
  /\ ord' = Append(ord, NewOrd)
  /\ UNCHANGED <<maxWorkers, pq, dpc, item, workerPool, gauge, tracker, ctxDone, startedWith, fsmVars, shutVars, busVars, intake, recovered, crashes,
                 preCrash, pools>>

\* SubmitTask, second half: s.submit(p) under s.mu.
SubmitEnqueue(u) ==
  /\ u \in submitting
  /\ submitting' = submitting \ {u}
  /\ pq' = HeapPush(products, pq, u)
  /\ gauge' = gauge + 1
  /\ tracker' = AddProduct(tracker, products[u])
  /\ dpc' = Signal(dpc)
  /\ UNCHANGED <<maxWorkers, products, io, item, wpc, workerPool, ctxDone, startedWith, fsmVars, shutVars, busVars, intake, walVars, engVars>>

\* The loop of Start reading the root of the queue without taking it out.
DispatchLoopPeek ==
  /\ dpc = "loop"
  /\ Len(pq) > 0
  /\ item' = pq[1]
  /\ dpc' = "slot"
  /\ UNCHANGED <<maxWorkers, products, submitting, io, pq, wpc, workerPool, gauge, tracker,
                 ctxDone, intake, startedWith, fsmVars, shutVars, busVars, walVars, engVars>>

\* Start: one pass of the loop under s.mu, from Lock (or from the return of
\* cond.Wait) to Unlock, to Wait or to return.
DispatchLoop ==
  /\ dpc = "loop"
  /\ IF Len(pq) = 0
       THEN /\ dpc' = IF ctxDone THEN "returned" ELSE "wait"
            /\ UNCHANGED <<pq, item, gauge>>
       ELSE IF ctxDone
         THEN /\ dpc' = "returned"
              /\ UNCHANGED <<pq, item, gauge>>
         ELSE /\ item' = HeapPopItem(products, pq)
              /\ pq' = HeapPopRest(products, pq)
              /\ gauge' = gauge - 1
              /\ dpc' = "slot"
  /\ UNCHANGED <<maxWorkers, products, submitting, io, wpc, workerPool, tracker, ctxDone, startedWith, fsmVars, shutVars, busVars, intake,
                 walVars, engVars>>

\* Start spawning the worker without waiting for a slot of workerPool.
DispatchSpawnNoSlot ==
  /\ dpc = "slot"
  /\ workerPool' = workerPool + 1
  /\ wpc' = [wpc EXCEPT ![item] = "process"]
  /\ item' = 0
  /\ dpc' = "loop"
  /\ UNCHANGED <<maxWorkers, products, submitting, io, pq, gauge, tracker, ctxDone, startedWith, fsmVars, shutVars, busVars, intake,
                 walVars, engVars>>

\* Start giving the slot to the order at the root of the queue when it
\* outranks the order it holds, and putting the held order back.
DispatchSpawnHighest ==
  /\ dpc = "slot"
  /\ workerPool < maxWorkers
  /\ workerPool' = workerPool + 1
  /\ LET swap == Len(pq) > 0 /\ PriorityOf(products, pq[1]) > PriorityOf(products, item) IN
       /\ wpc' = [wpc EXCEPT ![IF swap THEN pq[1] ELSE item] = "process"]
       /\ pq' = IF swap THEN HeapPush(products, HeapPopRest(products, pq), item) ELSE pq
  /\ item' = 0
  /\ dpc' = "loop"
  /\ UNCHANGED <<maxWorkers, products, submitting, io, gauge, tracker, ctxDone, startedWith, fsmVars, shutVars, busVars, intake,
                 walVars, engVars>>

\* Start: workerPool <- struct{}{}; s.wg.Add(1); go func(p) {...}(item.Product)
DispatchSpawn ==
  /\ dpc = "slot"
  /\ workerPool < maxWorkers
  /\ workerPool' = workerPool + 1
  /\ wpc' = [wpc EXCEPT ![item] = "process"]
  /\ item' = 0
  /\ dpc' = "loop"
  /\ UNCHANGED <<maxWorkers, products, submitting, io, pq, gauge, tracker, ctxDone, startedWith, fsmVars, shutVars, busVars, intake,
                 walVars, engVars>>

\* The worker calling s.wal.Complete before s.engine.Process has returned.
WorkerCompleteEarly(u, out) ==
  /\ wpc[u] = "process"
  /\ wal' = WalWrite(wal, CompleteEntry(products[u].ID), out)
  /\ wpc' = [wpc EXCEPT ![u] = "release"]
  /\ io' = [io EXCEPT ![u].complete = out]
  /\ UNCHANGED <<maxWorkers, products, submitting, pq, dpc, item, workerPool, gauge,
                 tracker, ctxDone, startedWith, fsmVars, shutVars, busVars, intake, recovered, crashes, preCrash, engVars>>

\* The worker after s.engine.Process returned: _ = s.wal.Complete(p.ID)
WorkerComplete(u, out) ==
  /\ wpc[u] = "process"
  /\ ord[u].pc = "done"
  /\ wal' = WalWrite(wal, CompleteEntry(products[u].ID), out)
  /\ wpc' = [wpc EXCEPT ![u] = "release"]
  /\ io' = [io EXCEPT ![u].complete = out]
  /\ UNCHANGED <<maxWorkers, products, submitting, pq, dpc, item, workerPool, gauge,
                 tracker, ctxDone, startedWith, fsmVars, shutVars, busVars, intake, recovered, crashes, preCrash, engVars>>

\* The worker decrementing metrics.TasksInQueue when it is done.
WorkerReleaseDecGauge(u) ==
  /\ wpc[u] = "release"
  /\ workerPool' = workerPool - 1
  /\ wpc' = [wpc EXCEPT ![u] = "done"]
  /\ gauge' = gauge - 1
  /\ UNCHANGED <<maxWorkers, products, submitting, io, pq, dpc, item, tracker,
                 ctxDone, startedWith, fsmVars, shutVars, busVars, intake, walVars, engVars>>

\* The worker: <-workerPool, then the deferred s.wg.Done()
WorkerRelease(u) ==
  /\ wpc[u] = "release"
  /\ workerPool' = workerPool - 1
  /\ wpc' = [wpc EXCEPT ![u] = "done"]
  /\ UNCHANGED <<maxWorkers, products, submitting, io, pq, dpc, item, gauge, tracker,
                 ctxDone, startedWith, fsmVars, shutVars, busVars, intake, walVars, engVars>>

\* ------------------------------------------------------------------ workflow engine

Publish(o, type, s) == [o EXCEPT !.events = Append(@, Ev(type, s))]

StepOf(u) == SequenceOf(products[u])[ord[u].step]

\* Process up to the loop over sequence: publishes ProductStarted.
ProcessStart(u) ==
  /\ wpc[u] = "process"
  /\ ord[u].pc = "idle"
  /\ ord' = [ord EXCEPT ![u] = [Publish(@, "ProductStarted", "") EXCEPT !.pc = "loop", !.step = 1]]
  /\ UNCHANGED <<schedVars, fsmVars, shutVars, busVars, walVars, pools>>

\* executeStep up to wg.Wait: a goroutine per registered station of the step;
\* an unregistered station gets its failed result at once.
Spawned(step) ==
  [k \in 1..Len(step.StationIDs) |->
     IF step.StationIDs[k] \in RegisteredStations THEN "wait" ELSE "missing"]

\* Process failing the order on a rule that cannot be evaluated, instead of
\* skipping the step.
ProcessLoopFailOnRuleError(u) ==
  /\ wpc[u] = "process"
  /\ ord[u].pc = "loop"
  /\ LET o == ord[u]
         sequence == SequenceOf(products[u])
     IN IF o.step > Len(sequence)
          THEN ord' = [ord EXCEPT ![u] = [Publish(o, "ProductCompleted", "") EXCEPT !.pc = "done"]]
          ELSE LET r == EvaluateRule(sequence[o.step].Rule, products[u]) IN
            IF r.err
              THEN ord' = [ord EXCEPT ![u] = [Publish(o, "ProductFailed", "") EXCEPT !.pc = "rollback"]]
              ELSE IF r.skip
                THEN ord' = [ord EXCEPT ![u].step = o.step + 1]
                ELSE ord' = [ord EXCEPT ![u].pc = "exec", ![u].gor = Spawned(sequence[o.step])]
  /\ UNCHANGED <<schedVars, fsmVars, shutVars, busVars, walVars, pools>>

\* Process: the head of one iteration of the loop over sequence, or its end.
ProcessLoop(u) ==
  /\ wpc[u] = "process"
  /\ ord[u].pc = "loop"
  /\ LET o == ord[u]
         sequence == SequenceOf(products[u])
     IN IF o.step > Len(sequence)
          THEN ord' = [ord EXCEPT ![u] = [Publish(o, "ProductCompleted", "") EXCEPT !.pc = "done"]]
          ELSE LET r == EvaluateRule(sequence[o.step].Rule, products[u]) IN
            IF r.err \/ r.skip
              THEN ord' = [ord EXCEPT ![u].step = o.step + 1]
              ELSE ord' = [ord EXCEPT ![u].pc = "exec", ![u].gor = Spawned(sequence[o.step])]
  /\ UNCHANGED <<schedVars, fsmVars, shutVars, busVars, walVars, pools>>

\* The goroutine calling Execute without waiting for room in the pool.
StationBeginNoPool(u, k) ==
  /\ ord[u].pc = "exec"
  /\ k \in DOMAIN ord[u].gor
  /\ ord[u].gor[k] = "wait"
  /\ LET s == StepOf(u).StationIDs[k] IN
       /\ pools' = IF hasPool(s) THEN [pools EXCEPT ![s] = @ + 1] ELSE pools
       /\ ord' = [ord EXCEPT ![u] = [Publish(@, "StepStarted", s) EXCEPT !.gor[k] = "run",
                                          !.base = MapPut(@, k, ord[u].History)]]
  /\ UNCHANGED <<schedVars, fsmVars, shutVars, busVars, walVars>>

\* The goroutine calling Execute without publishing StepStarted.
StationBeginSilent(u, k) ==
  /\ ord[u].pc = "exec"
  /\ k \in DOMAIN ord[u].gor
  /\ ord[u].gor[k] = "wait"
  /\ LET s == StepOf(u).StationIDs[k] IN
       /\ hasPool(s) => pools[s] < PoolSizes[s]
       /\ pools' = IF hasPool(s) THEN [pools EXCEPT ![s] = @ + 1] ELSE pools
       /\ ord' = [ord EXCEPT ![u].gor[k] = "run", ![u].base = MapPut(@, k, ord[u].History)]
  /\ UNCHANGED <<schedVars, fsmVars, shutVars, busVars, walVars>>

\* A goroutine of executeStep: takes the token of the station's pool, if it
\* has one, publishes StepStarted and calls Execute.
StationBegin(u, k) ==
  /\ ord[u].pc = "exec"
  /\ k \in DOMAIN ord[u].gor
  /\ ord[u].gor[k] = "wait"
  /\ LET s == StepOf(u).StationIDs[k] IN
       /\ hasPool(s) => pools[s] < PoolSizes[s]
       /\ pools' = IF hasPool(s) THEN [pools EXCEPT ![s] = @ + 1] ELSE pools
       /\ ord' = [ord EXCEPT ![u] = [Publish(@, "StepStarted", s) EXCEPT !.gor[k] = "run",
                                          !.base = MapPut(@, k, ord[u].History)]]
  /\ UNCHANGED <<schedVars, fsmVars, shutVars, busVars, walVars>>

\* The values of p.History that the goroutine k of the order u can have read
\* in `append(p.History, ...)`: p.History is read and written with no lock, so
\* the read may come before the write of a station running in parallel
\* (p.History as it was when this Execute began) or after it (as it is now).
HistoryRead(u, k) == {ord[u].base[k], ord[u].History}

\* Execute returns: success appends to p.History, failure does not.
StationReturn(u, k, success) ==
  /\ ord[u].pc = "exec"
  /\ k \in DOMAIN ord[u].gor
  /\ ord[u].gor[k] = "run"
  /\ LET s == StepOf(u).StationIDs[k] IN
       \E h \in HistoryRead(u, k) :
         ord' = [ord EXCEPT ![u].gor[k] = IF success THEN "ret_ok" ELSE "ret_fail",
                            ![u].base[k] = <<>>,
                            ![u].History = IF success THEN Append(h, HistoryEntry(s)) ELSE @]
  /\ UNCHANGED <<schedVars, fsmVars, shutVars, busVars, walVars, pools>>

\* The goroutine after Execute keeping the token of the pool when Execute
\* failed.
StationEndKeepOnFailure(u, k) ==
  /\ ord[u].pc = "exec"
  /\ k \in DOMAIN ord[u].gor
  /\ ord[u].gor[k] \in {"ret_ok", "ret_fail"}
  /\ LET s == StepOf(u).StationIDs[k] IN
       /\ pools' = IF hasPool(s) /\ ord[u].gor[k] = "ret_ok" THEN [pools EXCEPT ![s] = @ - 1] ELSE pools
       /\ ord' = [ord EXCEPT ![u] = [Publish(@, "StepCompleted", s) EXCEPT
                                       !.gor[k] = IF ord[u].gor[k] = "ret_ok" THEN "ok" ELSE "fail"]]
  /\ UNCHANGED <<schedVars, fsmVars, shutVars, busVars, walVars>>

\* The goroutine after Execute: publishes StepCompleted; the deferred <-pool
\* and wg.Done().
StationEnd(u, k) ==
  /\ ord[u].pc = "exec"
  /\ k \in DOMAIN ord[u].gor
  /\ ord[u].gor[k] \in {"ret_ok", "ret_fail"}
  /\ LET s == StepOf(u).StationIDs[k] IN
       /\ pools' = IF hasPool(s) THEN [pools EXCEPT ![s] = @ - 1] ELSE pools
       /\ ord' = [ord EXCEPT ![u] = [Publish(@, "StepCompleted", s) EXCEPT
                                       !.gor[k] = IF ord[u].gor[k] = "ret_ok" THEN "ok" ELSE "fail"]]
  /\ UNCHANGED <<schedVars, fsmVars, shutVars, busVars, walVars>>

\* checkStepFailure looking at the first result only.
checkStepFailureFirst(gor) == gor[1] # "ok"

\* checkStepFailure: some result of the step is not a success.
checkStepFailure(gor) == \E k \in DOMAIN gor : gor[k] # "ok"

\* Process going on after executeStep without wg.Wait: as soon as one
\* goroutine of the step is done.
StepJoinNoWait(u) ==
  /\ ord[u].pc = "exec"
  /\ \E k \in DOMAIN ord[u].gor : ord[u].gor[k] \in {"ok", "fail", "missing"}
  /\ LET o == ord[u] IN
       IF \E k \in DOMAIN o.gor : o.gor[k] \in {"fail", "missing"}
         THEN ord' = [ord EXCEPT ![u] = [Publish(o, "ProductFailed", "") EXCEPT
                                           !.pc = "rollback", !.rb = Len(o.executed), !.gor = <<>>]]
         ELSE ord' = [ord EXCEPT ![u].pc = "loop", ![u].gor = <<>>,
                                 ![u].executed = o.executed \o StepOf(u).StationIDs,
                                 ![u].step = o.step + 1]
  /\ UNCHANGED <<schedVars, fsmVars, shutVars, busVars, walVars, pools>>

\* Process entering rollback after a failed step without publishing
\* ProductFailed.
StepJoinSilent(u) ==
  /\ ord[u].pc = "exec"
  /\ \A k \in DOMAIN ord[u].gor : ord[u].gor[k] \in {"ok", "fail", "missing"}
  /\ LET o == ord[u] IN
       IF checkStepFailure(o.gor)
         THEN ord' = [ord EXCEPT ![u].pc = "rollback", ![u].rb = Len(o.executed), ![u].gor = <<>>]
         ELSE ord' = [ord EXCEPT ![u].pc = "loop", ![u].gor = <<>>,
                                 ![u].executed = o.executed \o StepOf(u).StationIDs,
                                 ![u].step = o.step + 1]
  /\ UNCHANGED <<schedVars, fsmVars, shutVars, busVars, walVars, pools>>

\* Process after executeStep returned (wg.Wait): a failed step publishes
\* ProductFailed and enters rollback(executedStations); otherwise
\* executedStations = append(executedStations, stepStations...).
StepJoin(u) ==
  /\ ord[u].pc = "exec"
  /\ \A k \in DOMAIN ord[u].gor : ord[u].gor[k] \in {"ok", "fail", "missing"}
  /\ LET o == ord[u] IN
       IF checkStepFailure(o.gor)
         THEN ord' = [ord EXCEPT ![u] = [Publish(o, "ProductFailed", "") EXCEPT
                                           !.pc = "rollback", !.rb = Len(o.executed), !.gor = <<>>]]
         ELSE ord' = [ord EXCEPT ![u].pc = "loop", ![u].gor = <<>>,
                                 ![u].executed = o.executed \o StepOf(u).StationIDs,
                                 ![u].step = o.step + 1]
  /\ UNCHANGED <<schedVars, fsmVars, shutVars, busVars, walVars, pools>>

\* rollback whose caller goes on with the next step instead of returning.
RollbackNoReturn(u) ==
  /\ ord[u].pc = "rollback"
  /\ LET o == ord[u] IN
       IF o.rb > 0
         THEN ord' = [ord EXCEPT ![u].comp = Append(@, o.executed[o.rb]), ![u].rb = o.rb - 1]
         ELSE ord' = [ord EXCEPT ![u] = [Publish(o, "ProductCompensated", "") EXCEPT
                                           !.pc = "loop", !.step = o.step + 1]]
  /\ UNCHANGED <<schedVars, fsmVars, shutVars, busVars, walVars, pools>>

\* rollback returning at once when the context is cancelled.
RollbackUnlessCancelled(u) ==
  /\ ord[u].pc = "rollback"
  /\ LET o == ord[u] IN
       IF ctxDone
         THEN ord' = [ord EXCEPT ![u].pc = "done"]
         ELSE IF o.rb > 0
           THEN ord' = [ord EXCEPT ![u].comp = Append(@, o.executed[o.rb]), ![u].rb = o.rb - 1]
           ELSE ord' = [ord EXCEPT ![u] = [Publish(o, "ProductCompensated", "") EXCEPT !.pc = "done"]]
  /\ UNCHANGED <<schedVars, fsmVars, shutVars, busVars, walVars, pools>>

\* rollback with its loop running from the first station to the last.
RollbackForward(u) ==
  /\ ord[u].pc = "rollback"
  /\ LET o == ord[u] IN
       IF o.rb > 0
         THEN ord' = [ord EXCEPT ![u].comp = Append(@, o.executed[Len(o.executed) - o.rb + 1]),
                                 ![u].rb = o.rb - 1]
         ELSE ord' = [ord EXCEPT ![u] = [Publish(o, "ProductCompensated", "") EXCEPT !.pc = "done"]]
  /\ UNCHANGED <<schedVars, fsmVars, shutVars, busVars, walVars, pools>>

\* rollback: one iteration, stations[i].Compensate(ctx, p), or the end of the
\* loop, which publishes ProductCompensated.
Rollback(u) ==
  /\ ord[u].pc = "rollback"
  /\ LET o == ord[u] IN
       IF o.rb > 0
         THEN ord' = [ord EXCEPT ![u].comp = Append(@, o.executed[o.rb]), ![u].rb = o.rb - 1]
         ELSE ord' = [ord EXCEPT ![u] = [Publish(o, "ProductCompensated", "") EXCEPT !.pc = "done"]]
  /\ UNCHANGED <<schedVars, fsmVars, shutVars, busVars, walVars, pools>>

\* ------------------------------------------------------------------ the state machine of a product

\* Fire calls on one FSM in the specification of the state machine.
MaxFires == 5

FsmStates ==
  {"CREATED", "PROCESSING", "QUALITY_CHECK", "COMPLETED", "FAILED", "COMPENSATING",
   "COMPENSATED"}

\* The Event constants, and a string that is none of them.
FsmEvents ==
  {"START", "ENTER_QC", "PASS_QC", "FINISH", "FAIL", "COMPENSATE", "ROLLBACK_DONE", "PAUSE"}

\* addTransition making a new row each time: the earlier entries of from are lost.
addTransitionNewRow(tr, from, event, to) ==
  MapPut(tr, from, MapPut(EmptyMap, event, to))

\* addTransition: the row of from is made when missing, then row[event] = to.
addTransition(tr, from, event, to) ==
  LET row == IF from \in DOMAIN tr THEN tr[from] ELSE EmptyMap
  IN MapPut(tr, from, MapPut(row, event, to))

\* initTransitions: the nine addTransition calls, in order.
initTransitions ==
  LET t1 == addTransition(EmptyMap, "CREATED", "START", "PROCESSING")
      t2 == addTransition(t1, "PROCESSING", "ENTER_QC", "QUALITY_CHECK")
      t3 == addTransition(t2, "PROCESSING", "FINISH", "COMPLETED")
      t4 == addTransition(t3, "PROCESSING", "FAIL", "FAILED")
      t5 == addTransition(t4, "QUALITY_CHECK", "PASS_QC", "PROCESSING")
      t6 == addTransition(t5, "QUALITY_CHECK", "FINISH", "COMPLETED")
      t7 == addTransition(t6, "QUALITY_CHECK", "FAIL", "FAILED")
      t8 == addTransition(t7, "FAILED", "COMPENSATE", "COMPENSATING")
  IN addTransition(t8, "COMPENSATING", "ROLLBACK_DONE", "COMPENSATED")

\* NewFSM: Current Created, no callback. With the FSM go the error of its last
\* Fire, the callbacks run and the events fired, in order.
NewFSM ==
  [Current |-> "CREATED",
   transitions |-> initTransitions,
   callbacks |-> {},     \* the states a callback is registered for
   err |-> "none",       \* what the last Fire returned: none yet, nil, error
   ran |-> <<>>,         \* the callbacks run: the state each was run for
   fired |-> <<>>,       \* the events of the Fire calls
   trail |-> <<"CREATED">>]  \* the values Current has had

\* RegisterCallback(state, callback)
RegisterCallback(state) ==
  /\ state \notin fsm.callbacks
  /\ fsm' = [fsm EXCEPT !.callbacks = @ \cup {state}]
  /\ UNCHANGED <<schedVars, walVars, engVars, shutVars, busVars>>

\* nextState, ok := f.transitions[f.Current][event]
Lookup(f, event) ==
  LET row == IF f.Current \in DOMAIN f.transitions THEN f.transitions[f.Current]
             ELSE EmptyMap
  IN [ok |-> event \in DOMAIN row,
      nextState |-> IF event \in DOMAIN row THEN row[event] ELSE ""]

\* Fire that sets Current to the zero value of the lookup before it tests ok.
FireAssignFirst(event) ==
  /\ Len(fsm.fired) < MaxFires
  /\ LET l == Lookup(fsm, event) IN
       fsm' = [fsm EXCEPT !.Current = l.nextState,
                          !.err = IF l.ok THEN "nil" ELSE "error",
                          !.ran = IF l.ok /\ l.nextState \in fsm.callbacks
                                    THEN Append(@, l.nextState) ELSE @,
                          !.fired = Append(@, event),
                          !.trail = Append(@, l.nextState)]
  /\ UNCHANGED <<schedVars, walVars, engVars, shutVars, busVars>>

\* Fire(event)
Fire(event) ==
  /\ Len(fsm.fired) < MaxFires
  /\ LET l == Lookup(fsm, event) IN
       IF ~l.ok
         THEN fsm' = [fsm EXCEPT !.err = "error", !.fired = Append(@, event)]
         ELSE fsm' = [fsm EXCEPT !.Current = l.nextState,
                                 !.err = "nil",
                                 !.ran = IF l.nextState \in fsm.callbacks
                                           THEN Append(@, l.nextState) ELSE @,
                                 !.fired = Append(@, event),
                                 !.trail = Append(@, l.nextState)]
  /\ UNCHANGED <<schedVars, walVars, engVars, shutVars, busVars>>

\* ------------------------------------------------------------------ the event bus

\* Subscribe and Publish calls in the specification of the bus.
MaxSubscribes == 3
MaxPublishes == 2

\* The event types used on the bus alone, and the handlers subscribed.
BusTypes == {"ProductCompleted", "StepCompleted", "ProductFailed"}
BusHandlers == {"metrics", "ui"}

\* NewBus: no handler; no Publish call yet and no goroutine.
NewBus ==
  [ handlers |-> [t \in BusTypes |-> <<>>],
    pubs     |-> <<>>,
    started  |-> <<>>,
    finished |-> {} ]

\* The goroutines Publish starts for the n-th call, of an event of type t:
\* one for each handler of handlers[t].
Goroutines(b, n, t) ==
  [k \in DOMAIN b.handlers[t] |-> [pub |-> n, type |-> t, handler |-> b.handlers[t][k]]]

\* Publish starting the handlers of every type.
RECURSIVE GoroutinesOfAll(_, _, _)
GoroutinesOfAll(b, n, ts) ==
  IF ts = {} THEN <<>>
  ELSE LET t == CHOOSE x \in ts : TRUE
       IN Goroutines(b, n, t) \o GoroutinesOfAll(b, n, ts \ {t})

BusPublishToAll(t) ==
  /\ Len(bus.pubs) < MaxPublishes
  /\ bus' = [bus EXCEPT !.pubs = Append(@, [type |-> t, subs |-> bus.handlers[t]]),
                        !.started = @ \o GoroutinesOfAll(bus, Len(bus.pubs) + 1, BusTypes)]
  /\ UNCHANGED <<schedVars, fsmVars, shutVars, handled, walVars, engVars>>

\* Bus.Subscribe: b.handlers[eventType] = append(b.handlers[eventType], handler)
BusSubscribe(t, h) ==
  /\ Len(bus.handlers[t]) < MaxSubscribes
  /\ bus' = [bus EXCEPT !.handlers[t] = Append(@, h)]
  /\ UNCHANGED <<schedVars, fsmVars, shutVars, handled, walVars, engVars>>

\* Bus.Publish: `go handler(e)` for each handler of the event's type, and
\* the return; the handlers run later.
BusPublish(t) ==
  /\ Len(bus.pubs) < MaxPublishes
  /\ bus' = [bus EXCEPT !.pubs = Append(@, [type |-> t, subs |-> bus.handlers[t]]),
                        !.started = @ \o Goroutines(bus, Len(bus.pubs) + 1, t)]
  /\ UNCHANGED <<schedVars, fsmVars, shutVars, handled, walVars, engVars>>

\* A goroutine started by Publish runs its handler to the end.
BusHandlerDone(g) ==
  /\ g \in DOMAIN bus.started
  /\ g \notin bus.finished
  /\ bus' = [bus EXCEPT !.finished = @ \cup {g}]
  /\ UNCHANGED <<schedVars, fsmVars, shutVars, handled, walVars, engVars>>

\* ------------------------------------------------------------------ the scheduler with its engine

\* The state after NewScheduler(engine, mw, wal, ...) on an empty WAL file;
\* d is where the loop of Start is, sw the length of the queue it started with.
InitState(mw, d, sw) ==
  /\ maxWorkers = mw
  /\ products = <<>>
  /\ submitting = {}
  /\ io = <<>>
  /\ pq = <<>>
  /\ dpc = d
  /\ item = 0
  /\ wpc = <<>>
  /\ workerPool = 0
  /\ gauge = 0
  /\ tracker = EmptyMap
  /\ ctxDone = FALSE
  /\ intake = TRUE
  /\ startedWith = sw
  /\ fsm = NewFSM
  /\ mu = "free"
  /\ bpc = "await"
  /\ wfc = "none"
  /\ handled = {}
  /\ bus = NewBus
  /\ wal = <<>>
  /\ recovered = NotRecovered
  /\ crashes = 0
  /\ preCrash = {}
  /\ ord = <<>>
  /\ pools = EmptyPools

\* The state after main built the scheduler and started it.
InitWith(mw) == InitState(mw, "loop", 0)

Init == \E mw \in 1..MaxWorkers : InitWith(mw)

Uids == DOMAIN products

\* The steps of the goroutines of Start and of executeStep, the worker's
\* WAL.Complete apart.
Run ==
  \/ DispatchLoop
  \/ DispatchSpawn
  \/ \E u \in Uids : SubmitEnqueue(u)
  \/ \E u \in Uids : ProcessStart(u)
  \/ \E u \in Uids : ProcessLoop(u)
  \/ \E u \in Uids, k \in 1..2 : StationBegin(u, k)
  \/ \E u \in Uids, k \in 1..2, success \in BOOLEAN : StationReturn(u, k, success)
  \/ \E u \in Uids, k \in 1..2 : StationEnd(u, k)
  \/ \E u \in Uids : StepJoin(u)
  \/ \E u \in Uids : Rollback(u)
  \/ \E u \in Uids : WorkerRelease(u)

\* The orders the callers submit in the scheduler's specification.
SubmitInputs ==
  {Product("A", "PCB_PROTOTYPE", 0), Product("B", "PCB_PROTOTYPE", MaxPriority)}

\* Three orders through the scheduler, on a disk that does not fail.
Next ==
  \/ \E p \in SubmitInputs : Len(products) < MaxSubmits /\ SubmitAppend(p, "ok")
  \/ \E u \in Uids : WorkerComplete(u, "ok")
  \/ Run

Spec == Init /\ [][Next]_vars

\* ------------------------------------------------------------------ the engine's workflows

EngineInputs ==
  {Product("A", "PCB_DOUBLE_LAYER", 0), Product("B", "PCB_PROTOTYPE", MaxPriority)}

\* Orders of both workflows, on a disk that does not fail.
EngineNext ==
  \/ \E p \in EngineInputs : Len(products) < MaxEngineSubmits /\ SubmitAppend(p, "ok")
  \/ \E u \in Uids : WorkerComplete(u, "ok")
  \/ Run

EngineSpec == Init /\ [][EngineNext]_vars

\* ------------------------------------------------------------------ an endless stream of orders

\* SubmitTask of a scheduler built without a WAL (s.wal == nil): submit(p) and
\* nothing else. The new Product object takes the place u: a new one, or that
\* of a product whose worker is done, which nothing refers to any more.
SubmitTaskNoWal(p, u) ==
  /\ intake
  /\ dpc # "down"
  /\ \/ u = Len(products) + 1
     \/ u \in DOMAIN products /\ wpc[u] = "done"
  /\ LET ps == MapPut(products, u, p) IN
       /\ products' = ps
       /\ pq' = HeapPush(ps, pq, u)
  /\ io' = MapPut(io, u, [append |-> "none", complete |-> "none"])
  /\ wpc' = MapPut(wpc, u, "none")
  /\ ord' = MapPut(ord, u, NewOrd)
  /\ gauge' = gauge + 1
  /\ tracker' = AddProduct(tracker, p)
  /\ dpc' = Signal(dpc)
  /\ UNCHANGED <<submitting, item, maxWorkers, workerPool, ctxDone, startedWith, fsmVars, shutVars, busVars, intake, walVars, pools>>

\* The worker of a scheduler built without a WAL, after Process returned:
\* s.wal == nil, no Complete.
WorkerNoWal(u) ==
  /\ wpc[u] = "process"
  /\ ord[u].pc = "done"
  /\ wpc' = [wpc EXCEPT ![u] = "release"]
  /\ UNCHANGED <<products, submitting, io, pq, dpc, item, maxWorkers, workerPool, gauge,
                 tracker, ctxDone, startedWith, fsmVars, shutVars, busVars, intake, walVars, engVars>>

\* The callers stop for good: no SubmitTask from now on.
CloseIntake ==
  /\ intake
  /\ intake' = FALSE
  /\ UNCHANGED <<products, submitting, io, pq, dpc, item, wpc, maxWorkers, workerPool,
                 gauge, tracker, ctxDone, startedWith, fsmVars, shutVars, busVars, walVars, engVars>>

StreamInputs ==
  {Product("A", "PCB_PROTOTYPE", 0), Product("B", "PCB_PROTOTYPE", MaxPriority)}

\* The goroutine of Start.
Dispatcher == DispatchLoop \/ DispatchSpawn

\* A send on the pool channel of a station, by a goroutine of order u.
PoolSend(u) == u \in Uids /\ \E k \in 1..2 : StationBegin(u, k)

\* The other steps of the worker of order u and of the goroutines of its steps.
OrderRun(u) ==
  /\ u \in Uids
  /\ \/ ProcessStart(u)
     \/ ProcessLoop(u)
     \/ \E k \in 1..2, success \in BOOLEAN : StationReturn(u, k, success)
     \/ \E k \in 1..2 : StationEnd(u, k)
     \/ StepJoin(u)
     \/ Rollback(u)
     \/ WorkerNoWal(u)
     \/ WorkerRelease(u)

StreamNext ==
  \/ \E p \in StreamInputs, u \in 1..MaxSlots : SubmitTaskNoWal(p, u)
  \/ CloseIntake
  \/ Dispatcher
  \/ \E u \in 1..MaxSlots : PoolSend(u)
  \/ \E u \in 1..MaxSlots : OrderRun(u)

\* Orders without end, with the fairness of the Go runtime: a goroutine that
\* can take a step takes it (Execute returns), and a goroutine blocked in a
\* send on a full pool channel is served when a place is freed, the senders
\* of a channel being queued. The dispatcher is the only sender on
\* workerPool. The callers are under no obligation.
StreamSpec ==
  /\ Init
  /\ [][StreamNext]_vars
  /\ WF_vars(Dispatcher)
  /\ \A u \in 1..MaxSlots : WF_vars(OrderRun(u)) /\ SF_vars(PoolSend(u))

\* ------------------------------------------------------------------ a disk that fails

\* Orders through the scheduler when WAL.Append and WAL.Complete may fail.
FaultNext ==
  \/ \E p \in SubmitInputs, out \in WriteOutcomes :
       Len(products) < MaxFaultSubmits /\ SubmitAppend(p, out)
  \/ \E u \in Uids, out \in WriteOutcomes : WorkerComplete(u, out)
  \/ Run

FaultSpec == Init /\ [][FaultNext]_vars

\* ------------------------------------------------------------------ crash and restart

\* The worker of u has written the COMPLETE record of u.
CompleteWritten(u) == io[u].complete \in {"ok", "sync_err"}

\* The process dies: the memory is lost, the WAL file stays.
Crash ==
  /\ dpc # "down"
  /\ crashes < MaxCrashes
  /\ crashes' = crashes + 1
  /\ preCrash' = preCrash \cup
       {products[u].ID : u \in {x \in Uids : x \notin submitting /\ ~CompleteWritten(x)}}
  /\ products' = <<>>
  /\ submitting' = {}
  /\ io' = <<>>
  /\ pq' = <<>>
  /\ dpc' = "down"
  /\ item' = 0
  /\ wpc' = <<>>
  /\ workerPool' = 0
  /\ gauge' = 0
  /\ tracker' = EmptyMap
  /\ ord' = <<>>
  /\ pools' = EmptyPools
  /\ UNCHANGED <<maxWorkers, ctxDone, startedWith, fsmVars, shutVars, busVars, intake, wal, recovered>>

\* The orders in which `for _, p := range tasks` can visit the set tasks.
Orderings(tasks) ==
  {f \in [1..Cardinality(tasks) -> tasks] : \A i, j \in DOMAIN f : f[i] = f[j] => i = j}

\* s.pq after submit(p) for the first n products of ps.
RECURSIVE PushAll(_, _)
PushAll(ps, n) == IF n = 0 THEN <<>> ELSE HeapPush(ps, PushAll(ps, n - 1), n)

\* StateTracker after AddProduct for the first n products of ps.
RECURSIVE AddAll(_, _)
AddAll(ps, n) == IF n = 0 THEN EmptyMap ELSE AddProduct(AddAll(ps, n - 1), ps[n])

\* The TASK entries of the products ps, in order.
TaskEntries(ps) == [k \in DOMAIN ps |-> TaskEntry(ps[k])]

\* RecoverTasks going through SubmitTask, which logs every task again.
RecoverTasksRelog(ps) ==
  /\ dpc = "down"
  /\ recovered' = [by |-> "Recover", tasks |-> Recover(wal)]
  /\ products' = ps
  /\ io' = [k \in DOMAIN ps |-> [append |-> "ok", complete |-> "none"]]
  /\ wpc' = [k \in DOMAIN ps |-> "none"]
  /\ ord' = [k \in DOMAIN ps |-> NewOrd]
  /\ pq' = PushAll(ps, Len(ps))
  /\ gauge' = Len(ps)
  /\ tracker' = AddAll(ps, Len(ps))
  /\ dpc' = "loop"
  /\ wal' = wal \o TaskEntries(ps)
  /\ UNCHANGED <<maxWorkers, submitting, item, workerPool, ctxDone, startedWith, fsmVars, shutVars, busVars, intake, crashes, preCrash, pools>>

\* main after a restart: RecoverTasks, which submits every task Recover
\* returned (submit, not SubmitTask), then go scheduler.Start(ctx).
RecoverTasks(ps) ==
  /\ dpc = "down"
  /\ recovered' = [by |-> "Recover", tasks |-> Recover(wal)]
  /\ products' = ps
  /\ io' = [k \in DOMAIN ps |-> [append |-> "none", complete |-> "none"]]
  /\ wpc' = [k \in DOMAIN ps |-> "none"]
  /\ ord' = [k \in DOMAIN ps |-> NewOrd]
  /\ pq' = PushAll(ps, Len(ps))
  /\ gauge' = Len(ps)
  /\ tracker' = AddAll(ps, Len(ps))
  /\ dpc' = "loop"
  /\ wal' = wal
  /\ UNCHANGED <<maxWorkers, submitting, item, workerPool, ctxDone, startedWith, fsmVars, shutVars, busVars, intake, crashes, preCrash, pools>>

\* RecoverTasks visits the tasks in the order of the slice Recover returned.
Restart == \E ps \in Orderings(Recover(wal)) : RecoverTasks(ps)

CrashInputs == {Product("A", "PCB_PROTOTYPE", 0), Product("B", "PCB_PROTOTYPE", MaxPriority)}

CrashNext ==
  \/ \E p \in CrashInputs, out \in {"ok", "write_err"} :
       Len(products) < MaxCrashSubmits /\ SubmitAppend(p, out)
  \/ \E u \in Uids : WorkerComplete(u, "ok")
  \/ Run
  \/ Crash
  \/ Restart

CrashSpec == Init /\ [][CrashNext]_vars

\* ------------------------------------------------------------------ the priority queue alone

\* heap.Push of a new item, as submit does it.
PQPush(p) ==
  /\ products' = Append(products, p)
  /\ pq' = HeapPush(products', pq, Len(products) + 1)
  /\ UNCHANGED <<submitting, io, dpc, item, wpc, maxWorkers, workerPool, gauge, tracker,
                 ctxDone, startedWith, fsmVars, shutVars, busVars, intake, walVars, engVars>>

\* heap.Pop, as the loop of Start does it.
PQPop ==
  /\ Len(pq) > 0
  /\ item' = HeapPopItem(products, pq)
  /\ pq' = HeapPopRest(products, pq)
  /\ UNCHANGED <<products, submitting, io, dpc, wpc, maxWorkers, workerPool, gauge,
                 tracker, ctxDone, startedWith, fsmVars, shutVars, busVars, intake, walVars, engVars>>

PQNext ==
  \/ \E pr \in Priorities : Len(products) < MaxPushes /\ PQPush(Product("A", "PCB_PROTOTYPE", pr))
  \/ PQPop

PQSpec == InitWith(1) /\ [][PQNext]_vars

\* ------------------------------------------------------------------ a crash inside a write

\* The process stops while Write has put only the first bytes of a record in
\* the file.
CrashInWrite ==
  /\ dpc # "down"
  /\ crashes < MaxCrashes
  /\ ~Torn(wal)
  /\ crashes' = crashes + 1
  /\ wal' = Append(wal, PartialLine)
  /\ products' = <<>>
  /\ submitting' = {}
  /\ io' = <<>>
  /\ pq' = <<>>
  /\ dpc' = "down"
  /\ item' = 0
  /\ wpc' = <<>>
  /\ workerPool' = 0
  /\ gauge' = 0
  /\ tracker' = EmptyMap
  /\ ord' = <<>>
  /\ pools' = EmptyPools
  /\ UNCHANGED <<maxWorkers, ctxDone, startedWith, fsmVars, shutVars, busVars, intake, recovered, preCrash>>

TornInputs ==
  {Product("A", "PCB_PROTOTYPE", 0), Product("B", "PCB_PROTOTYPE", 0), Product("C", "PCB_PROTOTYPE", 0)}

\* Orders of distinct ids are submitted and queued; the process crashes,
\* inside a write or outside, and restarts.
TornNext ==
  \/ \E p \in TornInputs :
       /\ Len(products) < MaxCrashSubmits
       /\ \A i \in DOMAIN wal : wal[i] # TaskEntry(p)
       /\ SubmitAppend(p, "ok")
  \/ \E u \in Uids : SubmitEnqueue(u)
  \/ Crash
  \/ CrashInWrite
  \/ Restart

TornSpec == InitWith(1) /\ [][TornNext]_vars

\* ------------------------------------------------------------------ the WAL file alone

\* The lines a WAL file is made of.
LogLines ==
  {TaskEntry(Product("A", "PCB_PROTOTYPE", 0)), TaskEntry(Product("A", "PCB_PROTOTYPE", MaxPriority)),
   TaskEntry(Product("B", "PCB_PROTOTYPE", 0)), CompleteEntry("A"), CompleteEntry("B"),
   CorruptLine}

\* A write through a file opened without O_APPEND, after a Recover that
\* left the file position at the start: the line goes over the first record.
WalLineAtPosition(e) ==
  /\ wal' = IF recovered.by # "none" /\ wal # <<>> THEN [wal EXCEPT ![1] = e] ELSE Append(wal, e)
  /\ recovered' = NotRecovered
  /\ UNCHANGED <<schedVars, fsmVars, shutVars, busVars, crashes, preCrash, engVars>>

\* One more line in the file.
WalLine(e) ==
  /\ wal' = Append(wal, e)
  /\ recovered' = NotRecovered
  /\ UNCHANGED <<schedVars, fsmVars, shutVars, busVars, crashes, preCrash, engVars>>

\* A call of the Recover of the source's WAL: the file is read, not changed.
WalRecover ==
  /\ recovered' = [by |-> "Recover", tasks |-> Recover(wal)]
  /\ UNCHANGED <<schedVars, fsmVars, shutVars, busVars, wal, crashes, preCrash, engVars>>

\* A call of the Recover of the source's other WAL.
WalRecoverVariant ==
  /\ recovered' = [by |-> "RecoverVariant", tasks |-> RecoverVariant(wal)]
  /\ UNCHANGED <<schedVars, fsmVars, shutVars, busVars, wal, crashes, preCrash, engVars>>

WalNext ==
  \/ \E e \in LogLines : Len(wal) < MaxLog /\ WalLine(e)
  \/ WalRecover
  \/ WalRecoverVariant

WalSpec == InitWith(1) /\ [][WalNext]_vars

\* ------------------------------------------------------------------ Recover on malformed lines

\* The lines of a WAL file, well-formed and malformed.
MalformedLines == {CorruptLine, UnknownTypeLine, TaskNoSnapshot}

ScannedLines ==
  {TaskEntry(Product("A", "PCB_PROTOTYPE", 0)), TaskEntry(Product("B", "PCB_PROTOTYPE", 0)),
   CompleteEntry("A")} \cup MalformedLines

\* The log without its malformed lines.
WellFormed(log) == SelectSeq(log, LAMBDA e : e \notin MalformedLines)

\* A call of Recover on the file as it is.
WalRecoverCall ==
  /\ recovered' = RecoverCall(wal)
  /\ UNCHANGED <<schedVars, fsmVars, shutVars, busVars, wal, crashes, preCrash, engVars>>

ScanNext ==
  \/ \E e \in ScannedLines : Len(wal) < MaxLog /\ WalLine(e)
  \/ WalRecoverCall

ScanSpec == InitWith(1) /\ [][ScanNext]_vars

\* ------------------------------------------------------------------ the workflows one by one

\* Orders in the specification of the workflows.
MaxFlowSubmits == 2

\* Orders of every configured workflow, of a type written in another case and
\* of a type that no workflow is configured for.
FlowInputs ==
  { Product("A", "PCB_DOUBLE_LAYER", 0),
    Product("A", "Pcb_Prototype", 0),
    Product("A", "PCB_CERAMIC", 0),
    Product("A", "PCB_RIGID_FLEX", 0),
    Product("A", "PCB_MULTI_LAYER", 0),
    Product("B", "PCB_MULTI_LAYER", MaxPriority),
    Product("B", "Pcb_Hdi", 0) }

FlowNext ==
  \/ \E p \in FlowInputs :
       Len(products) < MaxFlowSubmits /\ submitting = {} /\ SubmitAppend(p, "ok")
  \/ \E u \in Uids : WorkerComplete(u, "ok")
  \/ Run

FlowSpec == InitWith(1) /\ [][FlowNext]_vars

\* ------------------------------------------------------------------ three orders of priorities 0, 0, 2

\* The orders of the priority scenario, in the order of their submission.
PrioOrders ==
  << Product("A", "PCB_PROTOTYPE", 0), Product("B", "PCB_PROTOTYPE", 0),
     Product("C", "PCB_PROTOTYPE", MaxPriority) >>

\* go scheduler.Start(ctx): the loop starts on the queue as it is.
StartScheduler ==
  /\ dpc = "idle"
  /\ dpc' = "loop"
  /\ startedWith' = Len(pq)
  /\ UNCHANGED <<products, submitting, io, pq, item, wpc, maxWorkers, workerPool, gauge,
                 tracker, ctxDone, intake, fsmVars, shutVars, busVars, walVars, engVars>>

\* One caller submits the orders one after the other; the scheduler, of one
\* worker, is started before, between or after the submissions.
PrioNext ==
  \/ /\ Len(products) < Len(PrioOrders)
     /\ submitting = {}
     /\ SubmitAppend(PrioOrders[Len(products) + 1], "ok")
  \/ StartScheduler
  \/ \E u \in Uids : WorkerComplete(u, "ok")
  \/ Run

PrioSpec == InitState(1, "idle", -1) /\ [][PrioNext]_vars

\* ------------------------------------------------------------------ the state machine alone

\* The states a caller registers a callback for.
CallbackStates == {"PROCESSING", "FAILED", "COMPENSATED"}

FsmNext ==
  \/ \E event \in FsmEvents : Fire(event)
  \/ \E state \in CallbackStates : fsm.fired = <<>> /\ RegisterCallback(state)

FsmSpec == InitWith(1) /\ [][FsmNext]_vars

\* ------------------------------------------------------------------ shutdown

\* Orders submitted in the specification of the shutdown.
MaxStopSubmits == 2

\* waitForShutdown after the signal: cancel(), and the call of
\* scheduler.WaitForCompletion() that follows it.
Cancel ==
  /\ ~ctxDone
  /\ ctxDone' = TRUE
  /\ wfc' = "waiting"
  /\ UNCHANGED <<products, submitting, io, pq, dpc, item, wpc, maxWorkers, workerPool,
                 gauge, tracker, intake, startedWith, mu, bpc, fsmVars, busVars, walVars, engVars>>

\* The workers counted by s.wg: from s.wg.Add(1) to the deferred s.wg.Done().
WgCount == Cardinality({u \in Uids : wpc[u] \in {"process", "release"}})

\* WaitForCompletion: s.wg.Wait() returns when the counter is zero.
WaitForCompletion ==
  /\ wfc = "waiting"
  /\ WgCount = 0
  /\ wfc' = "returned"
  /\ UNCHANGED <<schedVars, mu, bpc, fsmVars, busVars, walVars, engVars>>

\* The goroutine of Start after <-ctx.Done() calling Broadcast without s.mu.
CancelBroadcastNoLock ==
  /\ bpc = "await"
  /\ ctxDone
  /\ dpc' = Signal(dpc)
  /\ bpc' = "end"
  /\ UNCHANGED <<products, submitting, io, pq, item, wpc, maxWorkers, workerPool, gauge,
                 tracker, ctxDone, intake, startedWith, mu, wfc, fsmVars, busVars, walVars, engVars>>

\* The goroutine of Start: <-ctx.Done(); s.mu.Lock(); s.cond.Broadcast();
\* s.mu.Unlock()
CancelBroadcast ==
  /\ bpc = "await"
  /\ ctxDone
  /\ mu = "free"
  /\ dpc' = Signal(dpc)
  /\ bpc' = "end"
  /\ UNCHANGED <<products, submitting, io, pq, item, wpc, maxWorkers, workerPool, gauge,
                 tracker, ctxDone, intake, startedWith, mu, wfc, fsmVars, busVars, walVars, engVars>>

\* Start: s.mu.Lock() at the top of the loop, or the lock taken again by
\* cond.Wait when it returns.
StartLock ==
  /\ dpc = "loop"
  /\ mu = "free"
  /\ mu' = "start"
  /\ dpc' = "locked"
  /\ UNCHANGED <<products, submitting, io, pq, item, wpc, maxWorkers, workerPool, gauge,
                 tracker, ctxDone, intake, startedWith, bpc, wfc, fsmVars, busVars, walVars, engVars>>

\* Start under s.mu testing ctx.Err() only when the queue is empty: with an
\* order in the queue it pops, cancelled or not.
StartCheckQueueFirst ==
  /\ dpc = "locked"
  /\ IF Len(pq) = 0
       THEN IF ctxDone
         THEN /\ dpc' = "returned"
              /\ mu' = "free"
              /\ UNCHANGED <<pq, item, gauge>>
         ELSE /\ dpc' = "towait"
              /\ UNCHANGED <<mu, pq, item, gauge>>
       ELSE /\ item' = HeapPopItem(products, pq)
            /\ pq' = HeapPopRest(products, pq)
            /\ gauge' = gauge - 1
            /\ dpc' = "slot"
            /\ mu' = "free"
  /\ UNCHANGED <<products, submitting, io, wpc, maxWorkers, workerPool, tracker, ctxDone,
                 intake, startedWith, bpc, wfc, fsmVars, busVars, walVars, engVars>>

\* Start under s.mu: the tests of s.pq.Len() and ctx.Err(), then the return,
\* the call of cond.Wait, or the pop.
StartCheck ==
  /\ dpc = "locked"
  /\ IF ctxDone
       THEN /\ dpc' = "returned"
            /\ mu' = "free"
            /\ UNCHANGED <<pq, item, gauge>>
       ELSE IF Len(pq) = 0
         THEN /\ dpc' = "towait"
              /\ UNCHANGED <<mu, pq, item, gauge>>
         ELSE /\ item' = HeapPopItem(products, pq)
              /\ pq' = HeapPopRest(products, pq)
              /\ gauge' = gauge - 1
              /\ dpc' = "slot"
              /\ mu' = "free"
  /\ UNCHANGED <<products, submitting, io, wpc, maxWorkers, workerPool, tracker, ctxDone,
                 intake, startedWith, bpc, wfc, fsmVars, busVars, walVars, engVars>>

\* s.cond.Wait(): the goroutine joins the waiters and unlocks s.mu.
StartWait ==
  /\ dpc = "towait"
  /\ dpc' = "wait"
  /\ mu' = "free"
  /\ UNCHANGED <<products, submitting, io, pq, item, wpc, maxWorkers, workerPool, gauge,
                 tracker, ctxDone, intake, startedWith, bpc, wfc, fsmVars, busVars, walVars, engVars>>

\* Orders whose stations are all local: DRILL then ETEST (the checked step
\* is skipped at priority 0), and ETEST alone.
StopInputs ==
  {Product("A", "PCB_MULTI_LAYER", 0), Product("B", "PCB_PROTOTYPE", 0)}

\* The steps of the program's goroutines in the specification of the shutdown.
StopRun ==
  \/ \E u \in Uids : mu = "free" /\ SubmitEnqueue(u)
  \/ StartLock
  \/ StartCheck
  \/ StartWait
  \/ DispatchSpawn
  \/ CancelBroadcast
  \/ WaitForCompletion
  \/ \E u \in Uids : ProcessStart(u)
  \/ \E u \in Uids : ProcessLoop(u)
  \/ \E u \in Uids, k \in 1..2 : StationBegin(u, k)
  \/ \E u \in Uids, k \in 1..2, success \in BOOLEAN : StationReturn(u, k, success)
  \/ \E u \in Uids, k \in 1..2 : StationEnd(u, k)
  \/ \E u \in Uids : StepJoin(u)
  \/ \E u \in Uids : Rollback(u)
  \/ \E u \in Uids : WorkerComplete(u, "ok")
  \/ \E u \in Uids : WorkerRelease(u)

StopNext ==
  \/ \E p \in StopInputs : Len(products) < MaxStopSubmits /\ SubmitAppend(p, "ok")
  \/ Cancel
  \/ StopRun

\* The goroutines are scheduled as long as they can take a step.
StopSpec == InitWith(1) /\ [][StopNext]_vars /\ WF_vars(StopRun)

\* ------------------------------------------------------------------ the event handlers

\* Orders submitted in the specification of the handlers.
MaxHandlerSubmits == 1

\* The events with a handler that writes to the state tracker, and the
\* status the handler writes.
TrackerStatus ==
  [ ProductStarted     |-> "PROCESSING",
    StepStarted        |-> "PROCESSING",
    ProductCompleted   |-> "COMPLETED",
    ProductFailed      |-> "FAILED",
    ProductCompensated |-> "COMPENSATED" ]

\* UpdateProductState changing its copy of the entry and not storing it.
UpdateProductStateNoStore(t, id, status) == t

\* StateTracker.UpdateProductState: the status of a product that is in the
\* map; nothing for one that is not.
UpdateProductState(t, id, status) ==
  IF id \in DOMAIN t THEN [t EXCEPT ![id] = status] ELSE t

\* The published events of the order u whose handler has not run yet: Publish
\* started a goroutine for each and did not wait.
Unhandled(u) ==
  {i \in DOMAIN ord[u].events :
     ord[u].events[i][1] \in DOMAIN TrackerStatus /\ <<u, i>> \notin handled}

\* One goroutine `go handler(e)` of Publish running the Web UI handler of
\* the i-th event of the order u.
Handler(u, i) ==
  /\ i \in Unhandled(u)
  /\ tracker' = UpdateProductState(tracker, products[u].ID, TrackerStatus[ord[u].events[i][1]])
  /\ handled' = handled \cup {<<u, i>>}
  /\ UNCHANGED <<bus, products, submitting, io, pq, dpc, item, wpc, maxWorkers, workerPool,
                 gauge, ctxDone, intake, startedWith, fsmVars, shutVars, walVars, engVars>>

\* An order through a step of two stations, one of them remote, and an order
\* through one station.
HandlerInputs ==
  {Product("A", "PCB_DOUBLE_LAYER", 0), Product("B", "PCB_PROTOTYPE", 0)}

\* The ids of the orders submitted so far.
SubmittedIDs == {products[u].ID : u \in Uids}

\* The steps of the program's goroutines, the handlers included.
HandlerRun ==
  \/ Run
  \/ \E u \in Uids : WorkerComplete(u, "ok")
  \/ \E u \in Uids, i \in 1..10 : Handler(u, i)

\* Orders of distinct ids.
HandlerNext ==
  \/ \E p \in HandlerInputs :
       /\ Len(products) < MaxHandlerSubmits
       /\ p.ID \notin SubmittedIDs
       /\ SubmitAppend(p, "ok")
  \/ HandlerRun

HandlerSpec == InitWith(1) /\ [][HandlerNext]_vars /\ WF_vars(HandlerRun)

\* ------------------------------------------------------------------ the event bus alone

BusNext ==
  \/ \E t \in BusTypes \ {"ProductFailed"}, h \in BusHandlers : BusSubscribe(t, h)
  \/ \E t \in BusTypes : BusPublish(t)
  \/ \E g \in 1..(MaxPublishes * MaxSubscribes) : BusHandlerDone(g)

BusSpec == InitWith(1) /\ [][BusNext]_vars

\* ------------------------------------------------------------------ properties

Range(f) == {f[x] : x \in DOMAIN f}

Reverse(q) == [k \in 1..Len(q) |-> q[Len(q) + 1 - k]]

IsTerminal(e) == e[1] \in {"ProductCompleted", "ProductCompensated"}

\* The number of terminal events published for product u.
TerminalCount(u) == IF u \in DOMAIN ord THEN Len(SelectSeq(ord[u].events, IsTerminal)) ELSE 0

Published(u, type) == Ev(type, "") \in Range(ord[u].events)

\* An order is admitted at place u and no terminal event is published for it.
Pending(u) == u \in DOMAIN products /\ TerminalCount(u) = 0

\* C1, as claimed: every order admitted through SubmitTask eventually has
\* exactly one terminal event published, ProductCompleted or
\* ProductCompensated, and never has two (the context is never cancelled,
\* every Execute returns, every pool has a capacity of at least 1).
C1_ExactlyOneTerminalEvent ==
  /\ [](\A u \in Uids : TerminalCount(u) <= 1)
  /\ \A u \in 1..MaxSlots : Pending(u) ~> (TerminalCount(u) = 1)

\* C1, amended: the same provided only finitely many orders are submitted.
\* Once the callers have stopped, no product is replaced and the number of
\* terminal events of an order never decreases: "again and again every
\* admitted order has exactly one" says that each gets its one and keeps it.
C1_ExactlyOneTerminalEventIfFinite ==
  /\ [](\A u \in Uids : TerminalCount(u) <= 1)
  /\ []<>(intake \/ \A u \in Uids : TerminalCount(u) = 1)

\* The callers have stopped, every place is taken, one order was completed
\* and another compensated, and every worker is done.
C1_Witness ==
  /\ ~intake
  /\ Len(products) = MaxSlots
  /\ \A u \in Uids : wpc[u] = "done" /\ TerminalCount(u) = 1
  /\ \E u, v \in Uids :
       /\ Published(u, "ProductCompleted")
       /\ Published(v, "ProductCompensated")

\* C2: when ProductCompensated is published for an order, the Compensate calls
\* made for it are the stations whose Execute succeeded for it (p.History, in
\* the order of completion), each once, in the reverse order.
C2_CompensateEverySuccess ==
  \A u \in Uids :
    Published(u, "ProductCompensated") =>
      [k \in DOMAIN ord[u].comp |-> HistoryEntry(ord[u].comp[k])] = Reverse(ord[u].History)

\* The products whose engine.Process invocation is in progress.
Processing == {u \in Uids : wpc[u] = "process" /\ ord[u].pc # "idle"}

\* The workers that hold a slot of workerPool.
SlotHolders == {u \in Uids : wpc[u] \in {"process", "release"}}

\* C3: at most maxWorkers engine.Process invocations are in progress; every
\* worker holds a slot of workerPool from before it is spawned until after
\* Process returned.
C3_AtMostMaxWorkers ==
  /\ Cardinality(Processing) <= maxWorkers
  /\ Processing \subseteq SlotHolders
  /\ Cardinality(SlotHolders) = workerPool
  /\ workerPool <= maxWorkers

\* maxWorkers invocations are in progress and the loop of Start waits for a
\* slot with a further item.
C3_Witness ==
  /\ maxWorkers = MaxWorkers
  /\ Cardinality(Processing) = maxWorkers
  /\ dpc = "slot"
  /\ item # 0

\* The Execute calls in progress on station s: (product, index in the step).
Executing(s) ==
  {c \in Uids \X (1..2) :
     /\ c[2] \in DOMAIN ord[c[1]].gor
     /\ ord[c[1]].gor[c[2]] = "run"
     /\ StepOf(c[1]).StationIDs[c[2]] = s}

\* The goroutines blocked on the pool of station s.
Waiting(s) ==
  {c \in Uids \X (1..2) :
     /\ c[2] \in DOMAIN ord[c[1]].gor
     /\ ord[c[1]].gor[c[2]] = "wait"
     /\ StepOf(c[1]).StationIDs[c[2]] = s}

\* C4: for every station with a resource pool of capacity K, at most K Execute
\* calls on it are in progress.
C4_PoolCapacity ==
  \A s \in DOMAIN PoolSizes : Cardinality(Executing(s)) <= PoolSizes[s]

\* A pool is full and a goroutine of another order waits for it.
C4_Witness ==
  \E s \in DOMAIN PoolSizes :
    /\ Cardinality(Executing(s)) = PoolSizes[s]
    /\ Waiting(s) # {}

\* The ids of the TASK records of a log, and those of its COMPLETE records.
TaskIds(log) == {log[i].task.ID : i \in {j \in DOMAIN log : log[j].type = "TASK"}}

CompleteIds(log) == {log[i].task_id : i \in {j \in DOMAIN log : log[j].type = "COMPLETE"}}

\* C5: each Recover of the source returns exactly the snapshots whose id is in
\* a TASK record and in no COMPLETE record of the log.
C5_RecoverExact ==
  recovered.by # "none" =>
    /\ {t.ID : t \in recovered.tasks} = TaskIds(wal) \ CompleteIds(wal)
    /\ \A t \in recovered.tasks : TaskEntry(t) \in Range(wal)

\* The products admitted (logged by SubmitTask, or pushed by submit) whose
\* worker has not written their COMPLETE record.
AdmittedNotCompleted ==
  {u \in Uids : (u \notin submitting \/ io[u].append # "write_err") /\ ~CompleteWritten(u)}

\* C6: the replay of the WAL yields exactly the orders admitted whose worker
\* has not written their COMPLETE record.
C6_ReplayIsAdmittedNotCompleted ==
  {t.ID : t \in Recover(wal)} = {products[u].ID : u \in AdmittedNotCompleted}

\* C7: an order whose WAL.Append returned an error is not admitted: it is not
\* in the priority queue, not in the state tracker, not handed to a worker.
C7_FailedAppendNotAdmitted ==
  \A u \in Uids :
    (io[u].append \in {"write_err", "sync_err"} /\ u \notin submitting) =>
      /\ u \notin Range(pq)
      /\ item # u
      /\ wpc[u] = "none"
      /\ (\A v \in Uids \ {u} : products[v].ID # products[u].ID) =>
           products[u].ID \notin DOMAIN tracker

\* C8: RecoverTasks leaves the WAL as it is and pushes every task that
\* Recover returns.
C8_RecoverTasksKeepsWal ==
  [][(dpc = "down" /\ dpc' # "down") =>
       /\ wal' = wal
       /\ {products'[u] : u \in Range(pq')} = Recover(wal)
       /\ Len(pq') = Cardinality(Recover(wal))]_vars

\* After a crash RecoverTasks has pushed the tasks of the log, and nothing
\* else has happened yet.
C8_Witness ==
  /\ crashes >= 1
  /\ dpc = "loop"
  /\ recovered.by = "Recover"
  /\ recovered.tasks # {}
  /\ Len(pq) = Cardinality(recovered.tasks)
  /\ Len(products) = Len(pq)

\* Nothing is left to do: no SubmitTask is in progress, the queue is empty,
\* the loop of Start waits and every worker is done.
Quiescent ==
  /\ submitting = {}
  /\ Len(pq) = 0
  /\ item = 0
  /\ dpc = "wait"
  /\ \A u \in Uids : wpc[u] = "done"

\* C9: an order submitted in a run that crashed before its COMPLETE record
\* was written is, once the restarted scheduler has nothing left to do, in
\* the WAL with a TASK and a COMPLETE record, and Recover does not return it.
C9_CrashRecovery ==
  (crashes >= 1 /\ Quiescent) =>
    \A id \in preCrash :
      /\ id \in TaskIds(wal)
      /\ id \in CompleteIds(wal)
      /\ id \notin {t.ID : t \in Recover(wal)}

\* C10: the item a heap.Pop returns has a priority greater than or equal to
\* that of every item left in the queue.
C10_PopReturnsMaximum ==
  [][(item' # item /\ item' # 0) =>
       \A k \in DOMAIN pq' : PriorityOf(products', item') >= PriorityOf(products', pq'[k])]_vars

\* A pop left at least three items behind, one of a lower priority.
C10_Witness ==
  /\ item # 0
  /\ Len(pq) >= 3
  /\ \E k \in DOMAIN pq : PriorityOf(products, item) > PriorityOf(products, pq[k])

\* No order of priority 0 has a terminal event before the order of the
\* highest priority has one.
HighestFirst ==
  \A u \in Uids :
    (products[u].Priority = 0 /\ TerminalCount(u) >= 1) =>
      \E v \in Uids : products[v].Priority = MaxPriority /\ TerminalCount(v) >= 1

\* C11, as claimed: with one worker and a scheduler that runs when the orders
\* of priorities 0, 0, 2 are submitted, the order of priority 2 has its
\* terminal event before either order of priority 0.
C11_PriorityTwoFirst ==
  (maxWorkers = 1 /\ startedWith = 0) => HighestFirst

\* C11, amended: the same when the three orders are submitted before the
\* scheduler is started.
C11_PriorityTwoFirstIfQueued ==
  (maxWorkers = 1 /\ startedWith = Len(PrioOrders)) => HighestFirst

\* The scheduler was started on the three orders and all have their terminal
\* event.
C11_Witness ==
  /\ startedWith = Len(PrioOrders)
  /\ \A u \in 1..Len(PrioOrders) : u \in Uids /\ wpc[u] = "done" /\ TerminalCount(u) = 1

\* An order of a strictly higher priority than that of u waits in the queue q.
Outranked(ps, q, u) == \E k \in DOMAIN q : PriorityOf(ps, q[k]) > PriorityOf(ps, u)

\* C12, as claimed: when a worker starts engine.Process on an order, no order
\* of a strictly higher priority waits in the priority queue.
C12_NoHigherWaitingAtProcess ==
  [][\A u \in Uids :
       (ord[u].pc = "idle" /\ ord'[u].pc # "idle") => ~Outranked(products, pq, u)]_vars

\* C12, amended: when the loop of Start takes an order out of the priority
\* queue, no order of a strictly higher priority waits in the queue.
C12_NoHigherWaitingAtPop ==
  [][(dpc = "loop" /\ dpc' = "slot") => ~Outranked(products, pq', item')]_vars

\* The loop has popped an order while every worker slot is taken, and orders
\* of a lower priority stay in the queue.
C12_Witness ==
  /\ dpc = "slot"
  /\ workerPool = maxWorkers
  /\ \E k \in DOMAIN pq : PriorityOf(products, pq[k]) < PriorityOf(products, item)

\* The orders admitted: submit has pushed them.
Admitted == Uids \ submitting

\* The places of an admitted order: in the priority queue, held by the loop
\* of Start between heap.Pop and the spawn of its worker, with its worker,
\* terminal (its worker is done).
InQueue(u) == u \in Range(pq)

HeldByLoop(u) == item = u

InFlight(u) == wpc[u] \in {"process", "release"}

AtTerminal(u) == wpc[u] = "done"

\* The number of the propositions bs that hold.
CountTrue(bs) == Cardinality({k \in DOMAIN bs : bs[k]})

\* C13, as claimed: every admitted order is in exactly one of three places:
\* in the priority queue (once), with exactly one worker, or terminal.
C13_ExactlyOnePlaceOfThree ==
  /\ Cardinality(Range(pq)) = Len(pq)
  /\ \A u \in Admitted : CountTrue(<<InQueue(u), InFlight(u), AtTerminal(u)>>) = 1

\* C13, amended: every admitted order is in exactly one of four places: the
\* three, or held by the dispatch loop that has popped it and has not yet
\* spawned its worker.
C13_ExactlyOnePlaceOfFour ==
  /\ Cardinality(Range(pq)) = Len(pq)
  /\ \A u \in Admitted :
       CountTrue(<<InQueue(u), HeldByLoop(u), InFlight(u), AtTerminal(u)>>) = 1

\* After a crash and the recovery, the loop holds an order it has popped
\* while the only slot is taken by the worker of another order.
C13_Witness ==
  /\ crashes >= 1
  /\ item # 0
  /\ \E u \in Admitted : InFlight(u) /\ ord[u].pc # "idle"

\* The transition table of the specification: from, event, to.
TransitionTable ==
  { <<"CREATED", "START", "PROCESSING">>,
    <<"PROCESSING", "ENTER_QC", "QUALITY_CHECK">>,
    <<"PROCESSING", "FINISH", "COMPLETED">>,
    <<"PROCESSING", "FAIL", "FAILED">>,
    <<"QUALITY_CHECK", "PASS_QC", "PROCESSING">>,
    <<"QUALITY_CHECK", "FINISH", "COMPLETED">>,
    <<"QUALITY_CHECK", "FAIL", "FAILED">>,
    <<"FAILED", "COMPENSATE", "COMPENSATING">>,
    <<"COMPENSATING", "ROLLBACK_DONE", "COMPENSATED">> }

InTable(st, event) == \E row \in TransitionTable : row[1] = st /\ row[2] = event

\* The state the table gives after event in state st.
TableStep(st, event) ==
  IF InTable(st, event)
    THEN (CHOOSE row \in TransitionTable : row[1] = st /\ row[2] = event)[3]
    ELSE st

\* The state the table gives after the events of es, from Created.
RECURSIVE TableRun(_)
TableRun(es) ==
  IF es = <<>> THEN "CREATED"
  ELSE TableStep(TableRun(SubSeq(es, 1, Len(es) - 1)), es[Len(es)])

\* C14: a Fire of an event that the table has no entry for in the current
\* state returns an error, leaves Current as it is and runs no callback.
C14_IllegalFireRejected ==
  [][(fsm'.fired # fsm.fired /\ ~InTable(fsm.Current, fsm'.fired[Len(fsm'.fired)])) =>
       /\ fsm'.err = "error"
       /\ fsm'.Current = fsm.Current
       /\ fsm'.ran = fsm.ran]_vars

\* An event was fired in Compensated, for which a callback is registered, and
\* rejected.
C14_Witness ==
  /\ fsm.Current = "COMPENSATED"
  /\ "COMPENSATED" \in fsm.callbacks
  /\ fsm.err = "error"

\* C15: a new FSM is in Created; after every sequence of Fire calls Current
\* is the state the nine-row table gives; the last Fire succeeded exactly if
\* its pair is in the table; Compensated is entered from Compensating, itself
\* entered from Failed.
C15_FollowsTable ==
  /\ fsm.trail[1] = "CREATED"
  /\ fsm.Current = TableRun(fsm.fired)
  /\ fsm.Current = fsm.trail[Len(fsm.trail)]
  /\ fsm.fired # <<>> =>
       (fsm.err = "nil" <=>
          InTable(TableRun(SubSeq(fsm.fired, 1, Len(fsm.fired) - 1)),
                  fsm.fired[Len(fsm.fired)]))
  /\ \A k \in DOMAIN fsm.trail :
       fsm.trail[k] = "COMPENSATED" =>
         k >= 3 /\ fsm.trail[k - 1] = "COMPENSATING" /\ fsm.trail[k - 2] = "FAILED"

\* Compensated was reached after a quality check.
C15_Witness ==
  /\ fsm.Current = "COMPENSATED"
  /\ fsm.err = "nil"
  /\ "QUALITY_CHECK" \in Range(fsm.trail)

\* Every station listed in the step is registered and its Execute returned
\* success for the order o (results[k].Success, kept by the goroutine k).
AllSucceeded(o, step) ==
  \A k \in DOMAIN step.StationIDs :
    /\ step.StationIDs[k] \in RegisteredStations
    /\ k \in DOMAIN o.gor /\ o.gor[k] = "ok"

\* C16: when executeStep has returned, Process goes on to the next step,
\* publishing nothing, exactly if every station of the step is registered and
\* returned success; otherwise it publishes ProductFailed and enters
\* rollback. After ProductFailed no step is started, and Process ends with
\* ProductCompensated.
C16_StepSucceedsIffAllSucceed ==
  /\ [][\A u \in Uids :
          (ord[u].pc = "exec" /\ ord'[u].pc # "exec") =>
            IF AllSucceeded(ord[u], StepOf(u))
              THEN /\ ord'[u].pc = "loop"
                   /\ ord'[u].step = ord[u].step + 1
                   /\ ord'[u].events = ord[u].events
              ELSE /\ ord'[u].pc = "rollback"
                   /\ ord'[u].events = Append(ord[u].events, Ev("ProductFailed", ""))]_vars
  /\ [](\A u \in Uids :
          Published(u, "ProductFailed") =>
            /\ ord[u].pc \in {"rollback", "done"}
            /\ ord[u].pc = "done" => Published(u, "ProductCompensated")
            /\ \A i, j \in DOMAIN ord[u].events :
                 (ord[u].events[i][1] = "ProductFailed" /\ j > i) =>
                   ord[u].events[j][1] # "StepStarted")

\* An order whose first step lists an unregistered station next to a station
\* that succeeded has ended compensated, and another order, whose two steps
\* succeeded, completed.
C16_Witness ==
  \E u, v \in Uids :
    /\ products[u].Type = "PCB_RIGID_FLEX"
    /\ ord[u].History = <<"DRILL">>
    /\ ord[u].pc = "done" /\ Published(u, "ProductCompensated")
    /\ products[v].Type = "PCB_DOUBLE_LAYER"
    /\ ord[v].pc = "done" /\ Published(v, "ProductCompleted")

\* The stations of the steps of the multi-layer workflow that the rules let
\* the order p go through: every step but the one of RuleUrgent when the
\* priority of p is 0.
MultiLayerStations(p) ==
  IF p.Priority > 0 THEN <<"DRILL", "AOI", "ETEST">> ELSE <<"DRILL", "ETEST">>

\* C17: a step with an empty rule or with a rule that is true of the order is
\* executed; a step whose rule is false of the order is skipped: no
\* StepStarted for its station, nothing in the history or in the executed
\* list, no Compensate on it.
C17_RuleDecidesExecution ==
  \A u \in Uids :
    products[u].Type = "PCB_MULTI_LAYER" =>
      LET o == ord[u]
          expected == MultiLayerStations(products[u])
      IN /\ products[u].Priority = 0 =>
              /\ Ev("StepStarted", "AOI") \notin Range(o.events)
              /\ HistoryEntry("AOI") \notin Range(o.History)
              /\ "AOI" \notin Range(o.executed)
              /\ "AOI" \notin Range(o.comp)
         /\ Published(u, "ProductCompleted") =>
              /\ o.History = [k \in DOMAIN expected |-> HistoryEntry(expected[k])]
              /\ o.executed = expected
         /\ \A k \in DOMAIN o.History :
              k <= Len(expected) /\ o.History[k] = HistoryEntry(expected[k])
         /\ (Published(u, "ProductCompensated") /\ o.pc = "done") =>
              /\ Len(o.History) < Len(expected)
              /\ Ev("StepStarted", expected[Len(o.History) + 1]) \in Range(o.events)

\* An order of priority 0 completed with its checked step skipped, and an
\* order of priority 2 of the same workflow completed with that step executed.
C17_Witness ==
  \E u, v \in Uids :
    /\ products[u].Type = "PCB_MULTI_LAYER" /\ products[u].Priority = 0
    /\ Published(u, "ProductCompleted")
    /\ products[v].Type = "PCB_MULTI_LAYER" /\ products[v].Priority > 0
    /\ Published(v, "ProductCompleted")
    /\ HistoryEntry("AOI") \in Range(ord[v].History)

\* The rule of the step the order u is at cannot be evaluated: it does not
\* compile, fails when run, or does not yield a boolean.
AtRuleError(u) ==
  /\ wpc[u] = "process"
  /\ ord[u].pc = "loop"
  /\ ord[u].step <= Len(SequenceOf(products[u]))
  /\ EvaluateRule(SequenceOf(products[u])[ord[u].step].Rule, products[u]).err

\* C18: a rule that does not compile, fails at run time or yields a
\* non-boolean only has its step skipped: Process moves to the next step and
\* publishes nothing, ProductFailed comes only from a station that failed, the
\* remaining steps are processed, and the order is completed when the steps
\* that were executed succeed.
C18_RuleErrorSkipsOnlyThatStep ==
  /\ [][\A u \in Uids : (AtRuleError(u) /\ ord'[u] # ord[u]) =>
          ord'[u] = [ord[u] EXCEPT !.step = @ + 1]]_vars
  /\ [](\A u \in Uids : products[u].Type = "Pcb_Hdi" =>
          LET o == ord[u] IN
          /\ Ev("StepStarted", "DRILL") \notin Range(o.events)
          /\ "DRILL" \notin Range(o.executed)
          /\ Published(u, "ProductFailed") =>
               /\ Ev("StepStarted", "ETEST") \in Range(o.events)
               /\ HistoryEntry("ETEST") \notin Range(o.History)
          /\ (o.pc = "done" /\ HistoryEntry("ETEST") \in Range(o.History)) =>
               /\ Published(u, "ProductCompleted")
               /\ ~Published(u, "ProductFailed")
               /\ o.History = <<HistoryEntry("ETEST")>>)

\* An order whose first three rules cannot be evaluated, completed by the
\* fourth step alone.
C18_Witness ==
  \E u \in Uids :
    /\ products[u].Type = "Pcb_Hdi"
    /\ Published(u, "ProductCompleted")
    /\ ord[u].History = <<HistoryEntry("ETEST")>>
    /\ ord[u].step = 5

\* The history of an order that went through every station of the steps.
HistoryOf(steps) ==
  LET RECURSIVE Flat(_)
      Flat(k) == IF k > Len(steps) THEN <<>>
                 ELSE [i \in DOMAIN steps[k].StationIDs |->
                         HistoryEntry(steps[k].StationIDs[i])] \o Flat(k + 1)
  IN Flat(1)

\* C19: the workflow of an order is found by its type whatever the case of
\* its letters, and an order whose type names no workflow goes through the
\* steps of the double-layer workflow, not through none.
C19_LookupFoldsCaseAndDefaults ==
  \A u \in Uids :
    LET o == ord[u] IN
    /\ products[u].Type = "Pcb_Prototype" =>
         /\ Range(o.executed) \subseteq {"ETEST"}
         /\ Published(u, "ProductCompleted") => o.History = HistoryOf(Workflows["pcb_prototype"])
    /\ products[u].Type = "PCB_CERAMIC" =>
         /\ Published(u, "ProductCompleted") =>
              /\ o.executed = <<"DRILL", "AOI", "ETEST">>
              /\ \A s \in Range(o.executed) : Ev("StepCompleted", s) \in Range(o.events)
              /\ o.History # <<>> /\ o.History[Len(o.History)] = HistoryEntry("ETEST")
         /\ o.pc \in {"rollback", "done"} =>
              \/ Ev("StepStarted", "DRILL") \in Range(o.events)
              \/ Ev("StepStarted", "AOI") \in Range(o.events)

\* An order of a type written in mixed case and an order of a type without a
\* workflow, both completed.
C19_Witness ==
  \E u, v \in Uids :
    /\ products[u].Type = "Pcb_Prototype" /\ Published(u, "ProductCompleted")
    /\ ord[u].History = <<HistoryEntry("ETEST")>>
    /\ products[v].Type = "PCB_CERAMIC" /\ Published(v, "ProductCompleted")
    /\ Len(ord[v].History) = 3

\* The step of the order's workflow that the station s belongs to.
StepIndex(u, s) ==
  LET sequence == SequenceOf(products[u])
      S == {k \in DOMAIN sequence : s \in Range(sequence[k].StationIDs)}
  IN CHOOSE k \in S : \A m \in S : k <= m

\* The goroutines of the step of u that called Execute and are not done.
InExecute(u) == {k \in DOMAIN ord[u].gor : ord[u].gor[k] \in {"run", "ret_ok", "ret_fail"}}

\* C20: within an order the steps run one after the other: when Execute of a
\* station of a step is started, Execute of every station of every earlier
\* step that was started has returned; and Process leaves a step only when
\* none of its goroutines is left.
C20_StepsInSequence ==
  /\ [](\A u \in Uids :
          LET ev == ord[u].events IN
          \A i, j \in DOMAIN ev :
            (/\ i < j
             /\ ev[i][1] = "StepStarted" /\ ev[j][1] = "StepStarted"
             /\ StepIndex(u, ev[i][2]) < StepIndex(u, ev[j][2]))
            => \E m \in DOMAIN ev : i < m /\ m < j /\ ev[m] = Ev("StepCompleted", ev[i][2]))
  /\ [][\A u \in Uids : (ord[u].pc = "exec" /\ ord'[u].pc # "exec") => InExecute(u) = {}]_vars

\* Both stations of the first step were inside Execute at once, and the
\* second step was started after both had returned.
C20_Witness ==
  \E u \in Uids :
    /\ products[u].Type = "PCB_DOUBLE_LAYER"
    /\ Published(u, "ProductCompleted")
    /\ \E a, b, c, d, e \in DOMAIN ord[u].events :
         /\ a < c /\ b < c /\ a < d /\ b < d /\ c < e /\ d < e
         /\ ord[u].events[a] = Ev("StepStarted", "DRILL")
         /\ ord[u].events[b] = Ev("StepStarted", "AOI")
         /\ ord[u].events[c] = Ev("StepCompleted", "DRILL")
         /\ ord[u].events[d] = Ev("StepCompleted", "AOI")
         /\ ord[u].events[e] = Ev("StepStarted", "ETEST")

\* The places of the event <<type, s>> in the events of the order u.
Places(u, type, s) ==
  {i \in DOMAIN ord[u].events : ord[u].events[i] = Ev(type, s)}

\* The orders of the double-layer workflow, whose first step has two stations.
TwoStationOrders == {u \in Uids : products[u].Type = "PCB_DOUBLE_LAYER"}

\* C21 as stated: in a step of two stations both StepStarted events come
\* before the StepCompleted event of either station.
C21_BothStartedBeforeEitherCompleted ==
  \A u \in TwoStationOrders :
    \A c \in Places(u, "StepCompleted", "DRILL") \cup Places(u, "StepCompleted", "AOI") :
      /\ \E a \in Places(u, "StepStarted", "DRILL") : a < c
      /\ \E b \in Places(u, "StepStarted", "AOI") : b < c

\* C21 amended: in a step of two stations the StepStarted event of each
\* station comes before the StepCompleted event of that station, each is
\* published once, and both StepCompleted events come before the StepStarted
\* of the next step; the two goroutines are not ordered between themselves.
C21_EachStartedBeforeItsCompleted ==
  \A u \in TwoStationOrders :
    /\ \A s \in {"DRILL", "AOI"} :
         /\ Cardinality(Places(u, "StepStarted", s)) <= 1
         /\ Cardinality(Places(u, "StepCompleted", s)) <= 1
         /\ \A c \in Places(u, "StepCompleted", s) :
              \E a \in Places(u, "StepStarted", s) : a < c
    /\ \A n \in Places(u, "StepStarted", "ETEST") :
         \A s \in {"DRILL", "AOI"} : \E c \in Places(u, "StepCompleted", s) : c < n

\* One order whose two stations overlapped and one whose first station was
\* done before the second was started.
C21_Witness ==
  \E u, v \in TwoStationOrders :
    /\ \E a \in Places(u, "StepStarted", "DRILL"), b \in Places(u, "StepStarted", "AOI") :
         \A c \in Places(u, "StepCompleted", "DRILL") \cup Places(u, "StepCompleted", "AOI") :
           a < c /\ b < c
    /\ Places(u, "StepCompleted", "DRILL") # {} /\ Places(u, "StepCompleted", "AOI") # {}
    /\ \E c \in Places(v, "StepCompleted", "DRILL"), b \in Places(v, "StepStarted", "AOI") : c < b

\* The station calls in progress on the station s: the goroutines of
\* executeStep between pool <- struct{}{} and the deferred <-pool, Execute
\* in between.
CallsOn(s) ==
  {<<u, k>> \in Uids \X (1..2) :
     /\ ord[u].pc = "exec"
     /\ k \in DOMAIN ord[u].gor
     /\ ord[u].gor[k] \in {"run", "ret_ok", "ret_fail"}
     /\ StepOf(u).StationIDs[k] = s}

\* C22: the token of a pool is given back when the station call returns,
\* whether Execute succeeded or failed: a pool holds as many tokens as there
\* are calls in progress on its station, never more than its size, and no
\* token when no order is being processed.
C22_TokensAreCallsInProgress ==
  /\ \A s \in DOMAIN PoolSizes :
       /\ pools[s] = Cardinality(CallsOn(s))
       /\ pools[s] <= PoolSizes[s]
  /\ (\A u \in Uids : wpc[u] # "process") => pools = EmptyPools

\* Two orders went through the pooled station, one call succeeded and the
\* other failed, and the pool is empty with nothing being processed.
C22_Witness ==
  /\ pools = EmptyPools
  /\ \A u \in Uids : wpc[u] = "done"
  /\ \E u, v \in Uids :
       /\ Ev("StepCompleted", "ETEST") \in Range(ord[u].events)
       /\ HistoryEntry("ETEST") \in Range(ord[u].History)
       /\ Ev("StepCompleted", "ETEST") \in Range(ord[v].events)
       /\ HistoryEntry("ETEST") \notin Range(ord[v].History)

\* C23: with an empty queue and no submission Start dispatches nothing and
\* stays blocked until the context is cancelled; after the cancellation it
\* returns, whatever the interleaving of the broadcast with the loop's test
\* and its call of Wait.
C23_StartBlocksUntilCancelled ==
  /\ [](dpc = "returned" => ctxDone)
  /\ [](products = <<>> => (item = 0 /\ workerPool = 0 /\ dpc \in {"loop", "locked", "towait", "wait", "returned"}))
  /\ [][(dpc = "wait" /\ dpc' # "wait") => (ctxDone \/ Len(pq') > Len(pq))]_vars
  /\ (ctxDone ~> dpc = "returned")

\* Start returned after a cancellation with nothing ever submitted.
C23_Witness ==
  /\ products = <<>>
  /\ ctxDone
  /\ bpc = "end"
  /\ dpc = "returned"

\* C24: once WaitForCompletion has returned after the cancellation, no
\* engine.Process invocation is in progress, and none starts later.
C24_NoProcessAfterWaitForCompletion ==
  wfc = "returned" => \A u \in Uids : wpc[u] # "process"

\* The order u is being processed and is in the step k of its workflow.
InStep(u, k) ==
  /\ u \in Uids
  /\ wpc[u] = "process"
  /\ ord[u].pc \in {"loop", "exec"}
  /\ ord[u].step = k

\* The order u has a station of a step later than k inside Execute.
ExecutesAfter(u, k) ==
  /\ u \in Uids
  /\ ord[u].pc = "exec"
  /\ ord[u].step > k
  /\ \E i \in DOMAIN ord[u].gor : ord[u].gor[i] = "run"

\* C25: when the context is cancelled while an order is in a step, no
\* station of a later step of that order is started afterwards.
C25_NoLaterStepAfterCancel ==
  \A u \in 1..MaxStopSubmits : \A k \in 1..3 :
    []((ctxDone /\ InStep(u, k) /\ ord[u].pc = "exec") => [](~ExecutesAfter(u, k)))

\* C26: after a step failed, rollback calls Compensate on every station of
\* the executed list, last first, and then publishes ProductCompensated,
\* whether or not the context is cancelled before or during the rollback.
C26_RollbackIgnoresCancel ==
  /\ [][\A u \in Uids :
          (ord[u].pc = "rollback" /\ ord'[u] # ord[u]) =>
            IF ord[u].rb > 0
              THEN ord'[u] = [ord[u] EXCEPT !.comp = Append(@, ord[u].executed[ord[u].rb]),
                                            !.rb = @ - 1]
              ELSE /\ ord'[u].events = Append(ord[u].events, Ev("ProductCompensated", ""))
                   /\ ord'[u].pc = "done"]_vars
  /\ [](\A u \in Uids :
          /\ Published(u, "ProductCompensated") => ord[u].comp = Reverse(ord[u].executed)
          /\ (ord[u].pc = "done" /\ Published(u, "ProductFailed")) => Published(u, "ProductCompensated"))
  /\ \A u \in 1..MaxStopSubmits :
       (u \in Uids /\ Published(u, "ProductFailed")) ~> (u \in Uids /\ Published(u, "ProductCompensated"))

\* With the context cancelled, an order whose second step failed has had
\* its first station compensated and ProductCompensated published.
C26_Witness ==
  /\ ctxDone
  /\ \E u \in Uids :
       /\ Published(u, "ProductFailed")
       /\ Published(u, "ProductCompensated")
       /\ ord[u].executed = <<"DRILL">>
       /\ ord[u].comp = <<"DRILL">>

\* C27: outside the sections under s.mu the gauge of the queue depth is the
\* number of orders in the queue: one more for each push, by SubmitTask or
\* by RecoverTasks, one less for each pop, and unchanged when a worker
\* completes its order.
C27_GaugeIsQueueLength ==
  /\ [](gauge = Len(pq))
  /\ [][gauge' - gauge = Len(pq') - Len(pq)]_vars
  /\ [][\A u \in Uids :
          (u \in DOMAIN wpc' /\ wpc[u] \in {"process", "release"} /\ wpc'[u] # wpc[u]) =>
            gauge' = gauge]_vars

\* After a restart that recovered two orders, one is done and the other is
\* still in the queue, counted by the gauge.
C27_Witness ==
  /\ crashes = 1
  /\ dpc # "down"
  /\ Cardinality(recovered.tasks) = 2
  /\ Len(products) = 2
  /\ Len(pq) = 1
  /\ gauge = 1
  /\ \E u \in Uids : wpc[u] = "done"

\* The COMPLETE records of the WAL file that carry the id.
CompleteRecords(id) == {i \in DOMAIN wal : wal[i] = CompleteEntry(id)}

\* The orders of the id whose worker is past its call of WAL.Complete.
PastComplete(id) ==
  {u \in Uids : products[u].ID = id /\ wpc[u] \in {"release", "done"}}

\* C28 as stated: every order whose worker is past WAL.Complete has exactly
\* one COMPLETE record with its id in the file.
C28_ExactlyOneCompleteRecord ==
  \A id \in ProductIDs : Cardinality(CompleteRecords(id)) = Cardinality(PastComplete(id))

\* C28 amended: the worker calls WAL.Complete exactly once for its order,
\* with the order's id, after engine.Process has returned and so after the
\* one terminal event, Completed or Compensated; the call leaves exactly one
\* COMPLETE record unless its write fails, in which case it leaves none and
\* the worker goes on; the worker slot is released after the call returned.
C28_OneCompleteCallAfterProcess ==
  /\ [](\A id \in ProductIDs :
          /\ \A u \in PastComplete(id) : io[u].complete \in WriteOutcomes /\ TerminalCount(u) = 1
          /\ Cardinality(CompleteRecords(id)) =
               Cardinality({u \in PastComplete(id) : io[u].complete # "write_err"}))
  /\ [](\A u \in Uids : wpc[u] \in {"none", "process"} => io[u].complete = "none")
  /\ [][wal' # wal =>
          \/ Len(products') > Len(products)
          \/ \E u \in Uids :
               /\ wpc[u] = "process" /\ wpc'[u] = "release"
               /\ ord[u].pc = "done" /\ TerminalCount(u) = 1
               /\ wal' = Append(wal, CompleteEntry(products[u].ID))]_vars
  /\ [][workerPool' < workerPool =>
          \E u \in Uids : wpc[u] = "release" /\ wpc'[u] = "done" /\ io[u].complete # "none"]_vars

\* A completed order and a compensated one, each with its COMPLETE record,
\* and both worker slots released.
C28_Witness ==
  /\ workerPool = 0
  /\ \E u, v \in Uids :
       /\ products[u].ID # products[v].ID
       /\ wpc[u] = "done" /\ wpc[v] = "done"
       /\ Published(u, "ProductCompleted") /\ Published(v, "ProductCompensated")
       /\ Cardinality(CompleteRecords(products[u].ID)) = 1
       /\ Cardinality(CompleteRecords(products[v].ID)) = 1

\* The status of the order u in the state tracker; "" when it has no entry.
StatusOf(u) ==
  IF u \in Uids /\ products[u].ID \in DOMAIN tracker THEN tracker[products[u].ID] ELSE ""

\* C29: the status of a submitted order whose stations all succeed
\* eventually becomes COMPLETED in the state tracker; that of an order with
\* a failing station eventually becomes COMPENSATED.
C29_StatusBecomesTerminal ==
  \A u \in 1..MaxHandlerSubmits :
    /\ []((u \in Uids /\ TerminalCount(u) = 0) => <>(StatusOf(u) \in {"COMPLETED", "COMPENSATED"}))
    /\ [](StatusOf(u) = "COMPLETED" => Published(u, "ProductCompleted"))
    /\ [](StatusOf(u) = "COMPENSATED" => Published(u, "ProductCompensated"))
    /\ [](u \in Uids => ~(Published(u, "ProductCompleted") /\ Published(u, "ProductCompensated")))
    /\ []((u \in Uids /\ ord[u].pc = "done") =>
            IF Len(ord[u].executed) = Len(HistoryOf(SequenceOf(products[u])))
              THEN Published(u, "ProductCompleted")
              ELSE Published(u, "ProductCompensated"))

\* The order whose remote station failed, after its other station
\* succeeded, is COMPENSATED in the state tracker.
C29_Witness ==
  \E u \in Uids :
    /\ products[u].Type = "PCB_DOUBLE_LAYER"
    /\ ord[u].History = <<HistoryEntry("DRILL")>>
    /\ Ev("StepCompleted", "AOI") \in Range(ord[u].events)
    /\ StatusOf(u) = "COMPENSATED"

\* The order u has terminated and every handler started for its events has
\* finished.
Settled(u) ==
  /\ u \in Uids
  /\ wpc[u] = "done"
  /\ Unhandled(u) = {}

\* C30: once an order has terminated and the handlers of its events have
\* all finished, its status in the state tracker is COMPLETED if
\* ProductCompleted was published and COMPENSATED if ProductCompensated was,
\* in whatever order the handlers ran.
C30_SettledStatusIsTerminal ==
  \A u \in Uids :
    Settled(u) =>
      /\ Published(u, "ProductCompleted") => StatusOf(u) = "COMPLETED"
      /\ Published(u, "ProductCompensated") => StatusOf(u) = "COMPENSATED"

\* The goroutines started for the n-th Publish call, in the order of start.
StartedFor(n) ==
  SelectSeq(bus.started, LAMBDA g : g.pub = n)

\* C31: Publish starts each handler subscribed to the type of the event at
\* the time of the call exactly once, starts no handler of another type, and
\* returns without waiting for a handler; an event of a type without
\* subscribers starts nothing and changes nothing else.
C31_PublishStartsItsHandlersOnce ==
  /\ [](\A n \in DOMAIN bus.pubs :
          /\ Len(StartedFor(n)) = Len(bus.pubs[n].subs)
          /\ \A k \in DOMAIN bus.pubs[n].subs :
               StartedFor(n)[k] = [pub |-> n, type |-> bus.pubs[n].type, handler |-> bus.pubs[n].subs[k]])
  /\ [][Len(bus'.pubs) > Len(bus.pubs) =>
          /\ bus'.finished = bus.finished
          /\ bus'.handlers = bus.handlers
          /\ bus.handlers[bus'.pubs[Len(bus'.pubs)].type] = <<>> => bus'.started = bus.started]_vars
  /\ [][bus'.finished # bus.finished => bus'.pubs = bus.pubs /\ bus'.started = bus.started]_vars

\* Two Publish calls returned, the first for a type with two handlers and
\* the second for a type without one, and no handler has finished; a handler
\* was subscribed to the first type after the call and was not started.
C31_Witness ==
  /\ Len(bus.pubs) = 2
  /\ Len(bus.pubs[1].subs) = 2
  /\ bus.pubs[2].type = "ProductFailed"
  /\ Len(bus.started) = 2
  /\ bus.finished = {}
  /\ Len(bus.handlers[bus.pubs[1].type]) = 3

\* The number of events <<type, s>> among the first n events of the order u.
CountUpTo(u, type, s, n) ==
  Cardinality({i \in Places(u, type, s) : i <= n})

\* C32: the events of one order are published in this order: ProductStarted
\* first; for each station call StepStarted before its StepCompleted, which
\* is published for a failed call too; ProductFailed before any Compensate
\* call and before ProductCompensated; nothing after the terminal event.
C32_EventOrder ==
  /\ [](\A u \in Uids :
          LET ev == ord[u].events IN
          /\ ev # <<>> => ev[1] = Ev("ProductStarted", "")
          /\ Cardinality(Places(u, "ProductStarted", "")) <= 1
          /\ \A n \in DOMAIN ev :
               ev[n][1] = "StepCompleted" =>
                 CountUpTo(u, "StepCompleted", ev[n][2], n) <= CountUpTo(u, "StepStarted", ev[n][2], n)
          /\ ord[u].pc \in {"loop", "rollback", "done"} =>
               \A s \in StationIDs :
                 Cardinality(Places(u, "StepCompleted", s)) = Cardinality(Places(u, "StepStarted", s))
          /\ ord[u].comp # <<>> => Published(u, "ProductFailed")
          /\ \A c \in Places(u, "ProductCompensated", "") :
               \E f \in Places(u, "ProductFailed", "") : f < c
          /\ \A i \in DOMAIN ev : IsTerminal(ev[i]) => i = Len(ev))
  /\ [][\A u \in Uids :
          (u \in DOMAIN ord' /\ Len(ord'[u].comp) > Len(ord[u].comp)) =>
            /\ Published(u, "ProductFailed")
            /\ ord'[u].events = ord[u].events]_vars

\* An order whose second step failed: its events end with the StepCompleted
\* of the failed call, ProductFailed and ProductCompensated, and its first
\* station was compensated in between.
C32_Witness ==
  \E u \in Uids :
    LET ev == ord[u].events IN
    /\ Len(ev) = 7
    /\ ev[1] = Ev("ProductStarted", "")
    /\ ev[2] = Ev("StepStarted", "DRILL")
    /\ ev[3] = Ev("StepCompleted", "DRILL")
    /\ ev[4] = Ev("StepStarted", "ETEST")
    /\ ev[5] = Ev("StepCompleted", "ETEST")
    /\ ev[6] = Ev("ProductFailed", "")
    /\ ev[7] = Ev("ProductCompensated", "")
    /\ ord[u].comp = <<"DRILL">>
    /\ HistoryEntry("ETEST") \notin Range(ord[u].History)

C34_RecoverSkipsMalformed ==
  recovered.by # "none" =>
    /\ recovered.by = "Recover"
    /\ recovered.tasks = Recover(WellFormed(wal))

\* The stations of the first n steps of sequence that the order o entered
\* (a skipped step publishes no StepStarted), in the order of the steps.
RECURSIVE StationsOfSteps(_, _, _)
StationsOfSteps(sequence, o, n) ==
  IF n = 0 THEN <<>>
  ELSE StationsOfSteps(sequence, o, n - 1) \o
       (IF \E i \in DOMAIN o.events : o.events[i] = Ev("StepStarted", sequence[n].StationIDs[1])
          THEN sequence[n].StationIDs ELSE <<>>)

\* The stations of the steps that succeeded before the step the order failed in.
EarlierStations(u) == StationsOfSteps(SequenceOf(products[u]), ord[u], ord[u].step - 1)

\* C35: after a failed step, rollback calls Compensate once on each station
\* of the steps that had fully succeeded before it, in the reverse order, and
\* on no station of the failing step; when the first step fails it calls no
\* Compensate, and ProductCompensated is published all the same.
C35_RollbackReverseOrder ==
  \A u \in Uids :
    LET o == ord[u] IN
      /\ o.comp # <<>> => Published(u, "ProductFailed")
      /\ Published(u, "ProductFailed") =>
            /\ Len(o.comp) <= Len(EarlierStations(u))
            /\ o.comp = SubSeq(Reverse(EarlierStations(u)), 1, Len(o.comp))
            /\ \A k \in DOMAIN StepOf(u).StationIDs :
                  \A i \in DOMAIN o.comp : o.comp[i] # StepOf(u).StationIDs[k]
            /\ o.step = 1 => o.comp = <<>>
            /\ o.pc = "done" => Published(u, "ProductCompensated")
      /\ Published(u, "ProductCompensated") => o.comp = Reverse(EarlierStations(u))

\* One order failed in its second step after both stations of the first
\* succeeded, another failed in its first step; both are compensated.
C35_Witness ==
  \E u, v \in Uids :
    /\ Published(u, "ProductCompensated") /\ ord[u].comp = <<"AOI", "DRILL">>
    /\ Published(v, "ProductCompensated") /\ ord[v].step = 1 /\ ord[v].comp = <<>>

\* How many entries of the sequence h are x.
RECURSIVE CountIn(_, _)
CountIn(h, x) ==
  IF h = <<>> THEN 0 ELSE (IF Head(h) = x THEN 1 ELSE 0) + CountIn(Tail(h), x)

\* C36: when ProductCompleted is published for an order, p.History holds
\* exactly one entry for every station of every step the order executed, the
\* stations of a parallel step included: no entry is lost or duplicated.
C36_HistoryComplete ==
  \A u \in Uids :
    Published(u, "ProductCompleted") =>
      LET expected == StationsOfSteps(SequenceOf(products[u]), ord[u],
                                      Len(SequenceOf(products[u]))) IN
        /\ Len(ord[u].History) = Len(expected)
        /\ \A k \in DOMAIN expected : CountIn(ord[u].History, HistoryEntry(expected[k])) = 1

\* The orders popped from the queue whose worker has not released its slot.
PoppedUnfinished == {u \in Admitted : ~InQueue(u) /\ wpc[u] \in {"none", "process", "release"}}

\* The orders popped from the queue and not yet started.
NotYetStarted == {u \in Admitted : ~InQueue(u) /\ wpc[u] = "none"}

\* C37: the loop pops an order before it has a worker slot: at most
\* maxWorkers + 1 orders are popped and unfinished, at most one of them is
\* popped and not yet started, and that order is the next one started,
\* whatever is submitted after its pop.
C37_OneHeldBeyondWorkers ==
  /\ [](Cardinality(PoppedUnfinished) <= maxWorkers + 1)
  /\ [](Cardinality(NotYetStarted) <= 1)
  /\ [](Cardinality(PoppedUnfinished \ NotYetStarted) <= maxWorkers)
  /\ [][\A u \in Uids :
          (wpc[u] = "none" /\ wpc'[u] = "process") => NotYetStarted = {u}]_vars
  /\ [][\A u \in NotYetStarted : u \in NotYetStarted' \/ wpc'[u] = "process"]_vars

\* Every slot is taken, the loop holds one more order, and an order of
\* higher priority submitted after the held one waits in the queue.
C37_Witness ==
  /\ Cardinality(PoppedUnfinished) = maxWorkers + 1
  /\ \E u \in NotYetStarted : \E v \in Range(pq) :
       v > u /\ PriorityOf(products, v) > PriorityOf(products, u)

\* No other submitted order has the id of the order u.
UniqueId(u) == \A v \in Uids : v # u => products[v].ID # products[u].ID

\* C38: once the loop of Start has seen the cancellation it pops no order:
\* the orders left in the queue are not processed in this run, no COMPLETE
\* record is written for them, and Recover on the file returns each of them.
C38_QueuedAtCancelStayQueued ==
  /\ [][(dpc = "locked" /\ ctxDone /\ dpc' # dpc) =>
          (dpc' = "returned" /\ pq' = pq /\ item' = item /\ wpc' = wpc)]_vars
  /\ [][dpc = "returned" =>
          /\ dpc' = "returned"
          /\ \A k \in DOMAIN pq : pq'[k] = pq[k]]_vars
  /\ [](dpc = "returned" =>
          \A u \in Range(pq) :
            /\ wpc[u] = "none"
            /\ ord[u].pc = "idle" /\ ord[u].events = <<>>
            /\ UniqueId(u) =>
                 /\ CompleteRecords(products[u].ID) = {}
                 /\ products[u] \in Recover(wal))

\* Start has returned and WaitForCompletion too; one order was processed to
\* its end and another, submitted before the cancellation, is left in the
\* queue and in the result of Recover.
C38_Witness ==
  /\ dpc = "returned"
  /\ wfc = "returned"
  /\ \E u, v \in Uids :
       /\ wpc[u] = "done" /\ CompleteRecords(products[u].ID) # {}
       /\ pq = <<v>> /\ UniqueId(v)
       /\ Recover(wal) = {products[v]}

\* C39: the entry of an order in the state tracker is made, with status
\* QUEUED, by submit under s.mu, before the order can be popped and so before
\* any of its events is published: every UpdateProductState called for an
\* event of an admitted order finds the id of the order in the tracker.
C39_TrackerEntryBeforeEvents ==
  /\ [](\A u \in Uids :
          /\ u \in Admitted => products[u].ID \in DOMAIN tracker
          /\ u \in submitting => (~InQueue(u) /\ item # u /\ ord[u].events = <<>>)
          /\ (InQueue(u) \/ item = u) => (StatusOf(u) = "QUEUED" /\ ord[u].events = <<>>)
          /\ ord[u].events # <<>> => products[u].ID \in DOMAIN tracker)
  /\ [][\A u \in Uids : \A i \in DOMAIN ord[u].events :
          (<<u, i>> \in handled' \ handled) =>
            /\ products[u].ID \in DOMAIN tracker
            /\ StatusOf(u)' = TrackerStatus[ord[u].events[i][1]]]_vars

\* The handler of the first event of an order has run and found the entry
\* made by submit: the status went from QUEUED to PROCESSING, and handlers
\* of later events are still to run.
C39_Witness ==
  \E u \in Uids :
    /\ handled = {<<u, 1>>}
    /\ StatusOf(u) = "PROCESSING"
    /\ Unhandled(u) # {}

\* C40: when a crash has left the first bytes of a record as the last line
\* of the file, Recover does not return that record, and every record that
\* Append writes with success after the restart is a record of its own in
\* the file, which Recover reads.
C40_TornLineLosesNothing ==
  /\ recovered.tasks \subseteq {wal[i].task : i \in {k \in DOMAIN wal : wal[k].type = "TASK"}}
  /\ \A u \in Uids :
       io[u].append = "ok" =>
         /\ TaskEntry(products[u]) \in Range(wal)
         /\ products[u] \in Recover(wal)

====
